---- MODULE Spec2Model ----
(***************************************************************************)
(* A model of the extraction and grouping core of better-docs:             *)
(*   - extractModuleFromName and groupRoutesByController                   *)
(*     (src/src/extractors/express/express-extractor.ts)                   *)
(*   - GenericExtractor (src/unnamed/part_001, lines 127-497)              *)
(* JavaScript strings are modelled as sequences of one-character strings,  *)
(* so that lower-casing, suffix stripping, splitting, substring search and *)
(* regular-expression matching are computed character by character.        *)
(***************************************************************************)
EXTENDS Integers, Sequences, FiniteSets, TLC

VARIABLES
    \* groupRoutesByController(routes, services, controllers)
    routes,          \* parameter: the route list; a route's identity is its position
    services,        \* parameter: the service list
    controllers,     \* parameter: the controller list
    serviceModules,  \* the Map moduleName -> serviceName, in insertion order
    chunks,          \* the Record moduleName -> route list, in insertion order
    moduleName,      \* the local moduleName of the fallback iteration last run
    index,           \* number of routes the fallback loop has finished
    pc,              \* position inside groupRoutesByController
    \* extractModuleFromName(name)
    name,            \* parameter
    nameRet,         \* returned value, NotCalled before the call
    \* extractHandlerName(handlerCode)
    handlerCode,     \* parameter
    handlerRet,      \* returned value, NotCalled before the call
    \* extractRouteFromMethod(method, classDecl)
    method,          \* parameter
    classDecl,       \* parameter
    routeRet,        \* whether it was called and the returned route, if any
    \* GenericExtractor.extractAll()
    sourceFiles,     \* the project's source files
    fileIndex,       \* number of source files the loop has finished
    exRoutes,        \* the local routes of extractAll
    exControllers,   \* the local controllers of extractAll
    exServices,      \* the local services of extractAll
    exTypes,         \* the local types of extractAll
    \* the commands of the CLI: what they are given
    options,         \* the command line options
    config,          \* configManager.getConfig()
    \* and what they do
    cmdPc,           \* position inside the command's action
    written,         \* the files written, in order
    dbOps,           \* the MongoDB adapter calls that returned, in order
    warnings,        \* number of console.warn calls
    exitCode,        \* <<>>, or <<code>> once process.exit(code) was called
    \* the analyze command and UniversalAnalyzer.analyze()
    project,         \* package.json, marker files and tsconfig.json of the project
    frameworkInfo,   \* <<>>, or the result of detectFramework()
    result,          \* <<>>, or what analyze() returned
    aiStarted,       \* generateAIDocumentation was called
    failure,         \* the step that raised, "none" when none did
    \* the chunked flows: the ai:chunks command and the generate command
    flow,            \* which of the two commands runs
    analysisData,    \* <<>>, or the analysis result the flow works on
    moduleChunks,    \* <<>>, or what groupRoutesByController returned
    moduleIndex,     \* number of modules the loop has finished
    emitted,         \* the sub-results built, in order
    \* AIService.generateDocumentation(prompt, maxRetries)
    prompt,          \* parameter
    maxRetries,      \* parameter
    provider,        \* this.config.provider
    attempt,         \* the loop variable
    responses,       \* what the calls of generateText gave, in order
    lastError,       \* <<>> for null, or <<the error caught last>>
    genPc,           \* position inside generateDocumentation
    genRet,          \* what the call returned or raised
    \* one MongoDBAdapter and its database
    mapping,         \* this.config.mapping
    isConnected,     \* the adapter's field
    clientOpen,      \* the MongoClient holds a connection
    stored,          \* the entries of the three collections, in insertion order
    commands,        \* the database commands issued, in order
    opLog            \* the adapter's methods called and how each ended, in order

groupVars == <<routes, services, controllers, serviceModules, chunks, moduleName, index, pc>>
nameVars == <<name, nameRet>>
handlerVars == <<handlerCode, handlerRet>>
pathVars == <<method, classDecl, routeRet>>
extractVars == <<sourceFiles, fileIndex, exRoutes, exControllers, exServices, exTypes>>
cmdVars == <<options, config, cmdPc, written, dbOps, warnings, exitCode>>
analyzeVars == <<project, frameworkInfo, result, aiStarted, failure>>
chunkVars == <<flow, analysisData, moduleChunks, moduleIndex, emitted>>
retryVars == <<prompt, maxRetries, provider, attempt, responses, lastError, genPc, genRet>>
adapterVars == <<mapping, isConnected, clientOpen, stored, commands, opLog>>
vars == <<groupVars, nameVars, handlerVars, pathVars, extractVars, cmdVars, analyzeVars,
          chunkVars, retryVars, adapterVars>>

(***************************************************************************)
(* Values that are not strings.                                            *)
(***************************************************************************)
Undefined == <<"<undefined>">>
Null == <<"<null>">>
NotCalled == <<"<not called>">>
\* an undefined value where a list of route objects is expected
UndefinedList == <<-1>>

(***************************************************************************)
(* Characters and the String methods the code uses.                        *)
(***************************************************************************)
UpperAlpha ==
    <<"A","B","C","D","E","F","G","H","I","J","K","L","M",
      "N","O","P","Q","R","S","T","U","V","W","X","Y","Z">>
LowerAlpha ==
    <<"a","b","c","d","e","f","g","h","i","j","k","l","m",
      "n","o","p","q","r","s","t","u","v","w","x","y","z">>
Digits == {"0","1","2","3","4","5","6","7","8","9"}
Letters == {UpperAlpha[i] : i \in 1..26} \cup {LowerAlpha[i] : i \in 1..26}
WhiteSpace == {" ", "\n", "\t"}

\* \w of a regular expression
IsWordChar(c) == c \in Letters \cup Digits \cup {"_"}

ToLowerChar(c) ==
    IF \E i \in 1..26 : UpperAlpha[i] = c
    THEN LowerAlpha[CHOOSE i \in 1..26 : UpperAlpha[i] = c]
    ELSE c

ToUpperChar(c) ==
    IF \E i \in 1..26 : LowerAlpha[i] = c
    THEN UpperAlpha[CHOOSE i \in 1..26 : LowerAlpha[i] = c]
    ELSE c

ToLowerCase(s) == [i \in 1..Len(s) |-> ToLowerChar(s[i])]
ToUpperCase(s) == [i \in 1..Len(s) |-> ToUpperChar(s[i])]

\* s.slice(from), 1-based
Tail_(s, from) == SubSeq(s, from, Len(s))

StartsWithAt(s, i, t) ==
    /\ i + Len(t) - 1 <= Len(s)
    /\ \A k \in 1..Len(t) : s[i + k - 1] = t[k]

StartsWith(s, t) == StartsWithAt(s, 1, t)

EndsWith(s, t) ==
    /\ Len(t) <= Len(s)
    /\ StartsWithAt(s, Len(s) - Len(t) + 1, t)

Includes(s, t) == \E i \in 1..(Len(s) - Len(t) + 1) : StartsWithAt(s, i, t)

SetMin(S) == CHOOSE x \in S : \A y \in S : x <= y

\* s.split(sep) for a one-character separator: the pieces between separators
RECURSIVE Split(_, _)
Split(s, sep) ==
    LET hits == {i \in 1..Len(s) : s[i] = sep}
    IN  IF hits = {} THEN <<s>>
        ELSE LET i == SetMin(hits)
             IN  <<SubSeq(s, 1, i - 1)>> \o Split(Tail_(s, i + 1), sep)

(***************************************************************************)
(* String literals of the source.                                          *)
(***************************************************************************)
STR_app == <<"a","p","p">>
STR_unknown == <<"u","n","k","n","o","w","n">>
STR_anonymous == <<"a","n","o","n","y","m","o","u","s">>
STR_slash == <<"/">>
STR_colon == <<":">>
STR_s == <<"s">>
STR_y == <<"y">>
STR_ies == <<"i","e","s">>
STR_Service == <<"S","e","r","v","i","c","e">>
STR_Controller == <<"C","o","n","t","r","o","l","l","e","r">>
STR_Dto == <<"D","t","o">>
STR_Entity == <<"E","n","t","i","t","y">>
STR_Model == <<"M","o","d","e","l">>
STR_Type == <<"T","y","p","e">>
STR_Interface == <<"I","n","t","e","r","f","a","c","e">>
STR_constructor == <<"c","o","n","s","t","r","u","c","t","o","r">>
STR___proto__ == <<"_","_","p","r","o","t","o","_","_">>

(***************************************************************************)
(* extractModuleFromName                                                   *)
(***************************************************************************)
\* s.replace(/(A|B|...)$/i, ''): the leftmost position from which the rest of
\* s is one of the alternatives, compared without case
StripSuffixI(s, alternatives) ==
    LET lows == {ToLowerCase(a) : a \in alternatives}
        hits == {i \in 1..Len(s) : ToLowerCase(Tail_(s, i)) \in lows}
    IN  IF hits = {} THEN s ELSE SubSeq(s, 1, SetMin(hits) - 1)

ModuleSuffixes ==
    {STR_Service, STR_Controller, STR_Dto, STR_Entity, STR_Model, STR_Type, STR_Interface}

\* the mutant pluralizes without the "ends with s" branch
PluralizeAlwaysAppends(cleanName) ==
    IF EndsWith(cleanName, STR_y)
    THEN SubSeq(cleanName, 1, Len(cleanName) - 1) \o STR_ies
    ELSE cleanName \o STR_s

Pluralize(cleanName) ==
    IF EndsWith(cleanName, STR_y)
    THEN SubSeq(cleanName, 1, Len(cleanName) - 1) \o STR_ies
    ELSE IF EndsWith(cleanName, STR_s)
         THEN cleanName
         ELSE cleanName \o STR_s

extractModuleFromName(n) ==
    IF n = Undefined \/ n = <<>> THEN Null
    ELSE Pluralize(ToLowerCase(StripSuffixI(n, ModuleSuffixes)))

(***************************************************************************)
(* groupRoutesByController: the grouping key object and the service Map    *)
(***************************************************************************)
STR_toString == <<"t","o","S","t","r","i","n","g">>
STR_valueOf == <<"v","a","l","u","e","O","f">>
STR_hasOwnProperty == <<"h","a","s","O","w","n","P","r","o","p","e","r","t","y">>
STR_isPrototypeOf == <<"i","s","P","r","o","t","o","t","y","p","e","O","f">>
STR_propertyIsEnumerable ==
    <<"p","r","o","p","e","r","t","y","I","s","E","n","u","m","e","r","a","b","l","e">>
STR_toLocaleString == <<"t","o","L","o","c","a","l","e","S","t","r","i","n","g">>
STR___defineGetter__ == <<"_","_","d","e","f","i","n","e","G","e","t","t","e","r","_","_">>
STR___defineSetter__ == <<"_","_","d","e","f","i","n","e","S","e","t","t","e","r","_","_">>
STR___lookupGetter__ == <<"_","_","l","o","o","k","u","p","G","e","t","t","e","r","_","_">>
STR___lookupSetter__ == <<"_","_","l","o","o","k","u","p","S","e","t","t","e","r","_","_">>

\* `chunks` is created as the object literal {}: a lookup of one of these keys
\* finds the property inherited from Object.prototype, which is truthy and
\* has no push method
ObjectPrototypeKeys ==
    {STR_constructor, STR___proto__, STR_toString, STR_valueOf, STR_hasOwnProperty,
     STR_isPrototypeOf, STR_propertyIsEnumerable, STR_toLocaleString,
     STR___defineGetter__, STR___defineSetter__, STR___lookupGetter__,
     STR___lookupSetter__}

\* Object.keys(chunks), in insertion order
ChunkKeys(ch) == [i \in 1..Len(ch) |-> ch[i].name]

HasOwn(ch, key) == \E i \in 1..Len(ch) : ch[i].name = key

\* chunks[key], for a key the object owns
ChunkGet(ch, key) == ch[CHOOSE i \in 1..Len(ch) : ch[i].name = key].routes

\* !chunks[key]: neither an own list nor an inherited property
ChunkMissing(ch, key) == ~HasOwn(ch, key) /\ key \notin ObjectPrototypeKeys

\* chunks[key].push(route) raises TypeError when chunks[key] is an inherited
\* property and not a list
PushThrows(ch, key) == ~HasOwn(ch, key) /\ key \in ObjectPrototypeKeys

\* the mutant starts the module's list afresh on every push
ChunkPushOverwrites(ch, key, route) ==
    IF HasOwn(ch, key)
    THEN [i \in 1..Len(ch) |->
            IF ch[i].name = key THEN [ch[i] EXCEPT !.routes = <<route>>] ELSE ch[i]]
    ELSE Append(ch, [name |-> key, routes |-> <<route>>])

\* if (!chunks[key]) chunks[key] = []; chunks[key].push(route)
ChunkPush(ch, key, route) ==
    LET withKey == IF ChunkMissing(ch, key)
                   THEN Append(ch, [name |-> key, routes |-> <<>>])
                   ELSE ch
    IN  [i \in 1..Len(withKey) |->
            IF withKey[i].name = key
            THEN [withKey[i] EXCEPT !.routes = Append(@, route)]
            ELSE withKey[i]]

\* serviceModules.set(module, serviceName): a known key keeps its position
MapSet(m, module, serviceName) ==
    IF \E i \in 1..Len(m) : m[i].module = module
    THEN [i \in 1..Len(m) |->
            IF m[i].module = module
            THEN [m[i] EXCEPT !.serviceName = serviceName]
            ELSE m[i]]
    ELSE Append(m, [module |-> module, serviceName |-> serviceName])

\* Array.from(serviceModules.keys())
MapKeys(m) == [i \in 1..Len(m) |-> m[i].module]

\* services.forEach(...) of lines 698-705
RECURSIVE CollectServiceModules(_, _)
CollectServiceModules(m, svcs) ==
    IF svcs = <<>> THEN m
    ELSE LET service == Head(svcs)
             module == extractModuleFromName(service.name)
         IN  CollectServiceModules(
                 IF module # Null THEN MapSet(m, module, service.name) ELSE m,
                 Tail(svcs))

\* controller.routes.forEach(...) of lines 719-724
RECURSIVE PushAll(_, _, _)
PushAll(ch, key, rs) ==
    IF rs = <<>> THEN ch
    ELSE PushAll(ChunkPush(ch, key, Head(rs)), key, Tail(rs))

\* lines 715-717: the module of a controller, Null when it is skipped
ControllerModule(controller) ==
    IF controller.name # Undefined /\ controller.name # <<>>
       /\ controller.routes # UndefinedList
    THEN extractModuleFromName(controller.name)
    ELSE Null

\* controllers.forEach(...) of lines 714-727
RECURSIVE CollectControllerRoutes(_, _)
CollectControllerRoutes(ch, ctrls) ==
    IF ctrls = <<>> THEN ch
    ELSE LET controller == Head(ctrls)
             module == ControllerModule(controller)
         IN  CollectControllerRoutes(
                 IF module # Null THEN PushAll(ch, module, controller.routes) ELSE ch,
                 Tail(ctrls))

(***************************************************************************)
(* groupRoutesByController: the fallback strategies of lines 731-784       *)
(***************************************************************************)
\* serviceName.replace(/(Service|Controller)$/i, '').toLowerCase()
ServiceBase(serviceName) ==
    ToLowerCase(StripSuffixI(serviceName, {STR_Service, STR_Controller}))

\* the mutant runs the fallback whatever the controllers produced
FallbackOpensAlways(ch) == TRUE

\* line 730: Object.keys(chunks).length === 0
FallbackOpens(ch) == Len(ChunkKeys(ch)) = 0

\* the mutant tests the inclusion the other way round
HandlerMatchesReversed(handler, serviceName) ==
    /\ handler # Undefined /\ handler # <<>>
    /\ Includes(ServiceBase(serviceName), ToLowerCase(handler))

\* route.handler && route.handler.toLowerCase().includes(serviceBase)
HandlerMatches(handler, serviceName) ==
    /\ handler # Undefined /\ handler # <<>>
    /\ Includes(ToLowerCase(handler), ServiceBase(serviceName))

\* Strategy 1, lines 735-747: the first entry of the Map whose service base
\* the handler contains, "unknown" when there is none
RECURSIVE Strategy1(_, _)
Strategy1(m, route) ==
    IF m = <<>> THEN STR_unknown
    ELSE IF HandlerMatches(route.handler, Head(m).serviceName)
         THEN Head(m).module
         ELSE Strategy1(Tail(m), route)

IsPathSegment(segment) == segment # <<>> /\ ~StartsWith(segment, STR_colon)

\* route.path.split('/').filter(segment => segment && !segment.startsWith(':'))
PathSegments(path) == SelectSeq(Split(path, "/"), IsPathSegment)

RouteGroupSize == 3

\* the mutant takes the module of the route's position, not of its group
RoundRobinByPosition(m, i) ==
    LET moduleNames == MapKeys(m)
    IN  IF i < Len(moduleNames)
        THEN (IF moduleNames[i + 1] # <<>> THEN moduleNames[i + 1] ELSE STR_app)
        ELSE STR_app

\* Strategy 3, lines 765-772; i is the route's 0-based position
RoundRobin(m, i) ==
    LET routeGroup == i \div RouteGroupSize
        moduleNames == MapKeys(m)
    IN  IF routeGroup < Len(moduleNames)
        THEN (IF moduleNames[routeGroup + 1] # <<>>
              THEN moduleNames[routeGroup + 1]
              ELSE STR_app)
        ELSE STR_app

\* the mutant takes the first segment as written, without lower-casing it
Strategy2KeepsCase(m, route, i) ==
    IF route.path = STR_slash \/ route.path = <<>> THEN STR_app
    ELSE LET pathSegments == PathSegments(route.path)
         IN  IF Len(pathSegments) > 0
             THEN pathSegments[1]
             ELSE RoundRobin(m, i)

\* Strategy 2, lines 751-774
Strategy2(m, route, i) ==
    IF route.path = STR_slash \/ route.path = <<>> THEN STR_app
    ELSE LET pathSegments == PathSegments(route.path)
         IN  IF Len(pathSegments) > 0
             THEN ToLowerCase(pathSegments[1])
             ELSE RoundRobin(m, i)

\* [a-zA-Z0-9-_]
IsFileNameChar(c) == c \in Letters \cup Digits \cup {"-", "_"}

\* moduleName.replace(/[^a-zA-Z0-9-_]/g, '_')
Sanitize(s) == [k \in 1..Len(s) |-> IF IsFileNameChar(s[k]) THEN s[k] ELSE "_"]

\* lines 732-778: the module name of the route at 0-based position i
FallbackModuleName(m, route, i) ==
    LET byHandler == Strategy1(m, route)
    IN  Sanitize(IF byHandler = STR_unknown THEN Strategy2(m, route, i) ELSE byHandler)

(***************************************************************************)
(* The calls of groupRoutesByController that are explored.                 *)
(***************************************************************************)
N_Users == <<"U","s","e","r","s">>
N_User == <<"U","s","e","r">>
N_Pay == <<"P","a","y","$">>
N_Order == <<"O","r","d","e","r">>
N_Admin == <<"A","d","m","i","n">>
P_param == <<"/",":","i","d">>
P_ctor == <<"/","c","o","n","s","t","r","u","c","t","o","r">>
P_seg == <<"/",":","v","/","A",".","b","/","c">>
H_getUsersOrder == <<"g","e","t","U","s","e","r","s","O","r","d","e","r">>
H_getUser == <<"g","e","t","U","s","e","r">>
H_list == <<"l","i","s","t">>

MaxRoutes == 4

\* the routes a list is made of: UniversalRoute, reduced to the two fields
\* the grouping reads
RouteKinds ==
    { [path |-> P_seg,     handler |-> H_getUsersOrder],
      [path |-> STR_slash, handler |-> <<>>],
      [path |-> <<>>,      handler |-> H_getUser],
      [path |-> P_param,   handler |-> H_getUser],
      [path |-> P_ctor,    handler |-> H_list] }

RouteLists == UNION {[1..n -> RouteKinds] : n \in 0..MaxRoutes}

Svc(n) == [name |-> n]

ServiceLists ==
    { <<>>,
      <<Svc(N_Pay \o STR_Service), Svc(<<>>), Svc(N_Users \o STR_Service)>>,
      <<Svc(N_User \o STR_Service), Svc(N_Order \o STR_Controller),
        Svc(N_Users \o STR_Service)>> }

\* a controller owns route objects; an object is named by a number, and the
\* object at position i of the route list is number i
Ctl(n, rs) == [name |-> n, routes |-> rs]

ControllerLists ==
    { <<>>,
      <<Ctl(<<>>, <<1>>), Ctl(N_Order \o STR_Controller, <<>>),
        Ctl(N_Admin \o STR_Controller, UndefinedList)>>,
      <<Ctl(N_Users \o STR_Controller, <<2, 1>>)>>,
      <<Ctl(N_User \o STR_Controller, <<1>>), Ctl(N_Pay \o STR_Controller, <<9>>),
        Ctl(<<>>, <<3>>), Ctl(N_Users \o STR_Controller, <<2>>)>> }

(***************************************************************************)
(* groupRoutesByController as a state machine.                             *)
(***************************************************************************)
GroupIdle ==
    /\ routes = <<>> /\ services = <<>> /\ controllers = <<>>
    /\ serviceModules = <<>> /\ chunks = <<>>
    /\ moduleName = Undefined /\ index = 0 /\ pc = "idle"

GroupInit ==
    /\ routes \in RouteLists
    /\ services \in ServiceLists
    /\ controllers \in ControllerLists
    /\ serviceModules = <<>>
    /\ chunks = <<>>
    /\ moduleName = Undefined
    /\ index = 0
    /\ pc = "services"

\* lines 697-705
BuildServiceModules ==
    /\ pc = "services"
    /\ serviceModules' = CollectServiceModules(<<>>, services)
    /\ pc' = "controllers"
    /\ UNCHANGED <<routes, services, controllers, chunks, moduleName, index>>

\* lines 713-730: the controllers' routes, and the test that opens the fallback
GroupByController ==
    /\ pc = "controllers"
    /\ chunks' = CollectControllerRoutes(<<>>, controllers)
    /\ pc' = IF FallbackOpens(chunks') THEN "fallback" ELSE "done"
    /\ UNCHANGED <<routes, services, controllers, serviceModules, moduleName, index>>

\* lines 731-784: one iteration of routes.forEach; the push of line 783 raises
\* when the module name is a property every object inherits
FallbackRoute ==
    /\ pc = "fallback"
    /\ index < Len(routes)
    /\ moduleName' = FallbackModuleName(serviceModules, routes[index + 1], index)
    /\ IF PushThrows(chunks, moduleName')
       THEN /\ pc' = "threw"
            /\ UNCHANGED <<chunks, index>>
       ELSE /\ chunks' = ChunkPush(chunks, moduleName', index + 1)
            /\ index' = index + 1
            /\ pc' = pc
    /\ UNCHANGED <<routes, services, controllers, serviceModules>>

\* line 787, reached from the fallback loop
FallbackReturn ==
    /\ pc = "fallback"
    /\ index = Len(routes)
    /\ pc' = "done"
    /\ UNCHANGED <<routes, services, controllers, serviceModules, chunks, moduleName, index>>

GroupNext ==
    \/ BuildServiceModules
    \/ GroupByController
    \/ FallbackRoute
    \/ FallbackReturn

(***************************************************************************)
(* The other operations at rest.                                           *)
(***************************************************************************)
NameIdle == name = Undefined /\ nameRet = NotCalled
HandlerIdle == handlerCode = Undefined /\ handlerRet = NotCalled
PathIdle == method = <<>> /\ classDecl = <<>> /\ routeRet = [called |-> FALSE, value |-> <<>>]
ExtractIdle ==
    /\ sourceFiles = <<>> /\ fileIndex = 0
    /\ exRoutes = <<>> /\ exControllers = <<>> /\ exServices = <<>> /\ exTypes = <<>>

CmdIdle ==
    /\ options = <<>> /\ config = <<>> /\ cmdPc = "idle"
    /\ written = <<>> /\ dbOps = <<>> /\ warnings = 0 /\ exitCode = <<>>
AnalyzeIdle ==
    /\ project = <<>> /\ frameworkInfo = <<>> /\ result = <<>>
    /\ aiStarted = FALSE /\ failure = "none"
ChunkIdle ==
    /\ flow = "none" /\ analysisData = <<>> /\ moduleChunks = <<>>
    /\ moduleIndex = 0 /\ emitted = <<>>
RetryIdle ==
    /\ prompt = <<>> /\ maxRetries = 0 /\ provider = "none" /\ attempt = 0
    /\ responses = <<>> /\ lastError = <<>> /\ genPc = "idle" /\ genRet = <<>>
AdapterIdle ==
    /\ mapping = <<>> /\ isConnected = FALSE /\ clientOpen = FALSE
    /\ stored = <<>> /\ commands = <<>> /\ opLog = <<>>
ServicesIdle == RetryIdle /\ AdapterIdle
serviceVars == <<retryVars, adapterVars>>
OthersIdle == CmdIdle /\ AnalyzeIdle /\ ChunkIdle /\ ServicesIdle
otherVars == <<cmdVars, analyzeVars, chunkVars, serviceVars>>

Init == GroupInit /\ NameIdle /\ HandlerIdle /\ PathIdle /\ ExtractIdle /\ OthersIdle
Next == GroupNext /\ UNCHANGED <<nameVars, handlerVars, pathVars, extractVars, otherVars>>
Spec == Init /\ [][Next]_vars

(***************************************************************************)
(* Claims about groupRoutesByController, stated on the model's state.      *)
(***************************************************************************)
\* the controllers with a non-empty name and at least one route
Owning ==
    {k \in 1..Len(controllers) :
        /\ controllers[k].name # Undefined
        /\ controllers[k].name # <<>>
        /\ controllers[k].routes # UndefinedList
        /\ Len(controllers[k].routes) >= 1}

\* the (controller, position) pairs of the routes the owning controllers
\* bring to module m
OwnedBy(m) ==
    {p \in UNION {{<<k, j>> : j \in 1..Len(controllers[k].routes)} : k \in Owning} :
        extractModuleFromName(controllers[p[1]].name) = m}

PairBefore(p, q) == p[1] < q[1] \/ (p[1] = q[1] /\ p[2] < q[2])

\* route object r is in some module's list
Filed(r) ==
    \E k \in 1..Len(chunks) : \E j \in 1..Len(chunks[k].routes) : chunks[k].routes[j] = r

\* the key of the list route object r is in
KeyOf(r) ==
    chunks[CHOOSE k \in 1..Len(chunks) :
               \E j \in 1..Len(chunks[k].routes) : chunks[k].routes[j] = r].name

\* C1: when some controller has a non-empty name and at least one route, the
\* result holds exactly the routes of such controllers, each module's list
\* being its controllers' routes in controller order then route order, the
\* fallback loop never runs, and input routes no controller owns are in no list
C1_ControllersFirst ==
    (pc \in {"fallback", "threw", "done"} /\ Owning # {}) =>
        /\ pc = "done"
        /\ index = 0
        /\ moduleName = Undefined
        /\ {chunks[k].name : k \in 1..Len(chunks)}
              = {extractModuleFromName(controllers[k].name) : k \in Owning}
        /\ \A k \in 1..Len(chunks) :
              LET owned == OwnedBy(chunks[k].name)
                  list == chunks[k].routes
              IN  /\ \A k2 \in 1..Len(chunks) : chunks[k2].name = chunks[k].name => k2 = k
                  /\ Len(list) = Cardinality(owned)
                  /\ \A p \in owned :
                        list[1 + Cardinality({q \in owned : PairBefore(q, p)})]
                            = controllers[p[1]].routes[p[2]]
        /\ \A i \in 1..Len(routes) :
              (\A k \in Owning : \A j \in 1..Len(controllers[k].routes) :
                    controllers[k].routes[j] # i)
                 => ~Filed(i)

\* a finished call in which two controllers fill one module, another module
\* exists, and an input route matching a fallback strategy is left out
C1_Witness ==
    /\ pc = "done"
    /\ Cardinality(Owning) >= 3
    /\ \E k \in 1..Len(chunks) : Len(chunks[k].routes) >= 2
    /\ Len(chunks) >= 2
    /\ \E i \in 1..Len(routes) : ~Filed(i) /\ routes[i].path = STR_slash

\* C2: every key of the returned mapping consists of characters of
\* [a-zA-Z0-9-_] only
C2_KeysSanitized ==
    pc = "done" =>
        \A k \in 1..Len(chunks) : \A j \in 1..Len(chunks[k].name) :
            chunks[k].name[j] \in Letters \cup Digits \cup {"-", "_"}

\* the call has ended: it has returned the mapping or the push has raised
Ended == pc \in {"done", "threw"}

\* the positions of the route list the fallback loop has named: the routes it
\* filed and, when the push raised, the route it was filing
Named == 1..(IF pc = "threw" THEN index + 1 ELSE index)

\* the module name the fallback loop gave the route at position i
NameGiven(i) == IF i <= index THEN KeyOf(i) ELSE moduleName

\* the services that derive a module name
NamedServices ==
    {k \in 1..Len(services) : services[k].name # Undefined /\ services[k].name # <<>>}

\* the module name each service derives, Null for a service without a name
RECURSIVE DerivedNames(_)
DerivedNames(svcs) ==
    IF svcs = <<>> THEN <<>>
    ELSE <<extractModuleFromName(Head(svcs).name)>> \o DerivedNames(Tail(svcs))

\* the Map as the claims describe it: one entry per derived module name, in
\* the order the names are first derived, holding the name of the last
\* service that derives it
DescribedMap ==
    LET mod == DerivedNames(services)
        same(k) == {k2 \in NamedServices : mod[k2] = mod[k]}
        firsts == {k \in NamedServices : \A k2 \in same(k) : k <= k2}
        nth(r) == CHOOSE k \in firsts : Cardinality({k2 \in firsts : k2 < k}) = r - 1
        lastOf(k) == CHOOSE k2 \in same(k) : \A k3 \in same(k) : k3 <= k2
    IN  [r \in 1..Cardinality(firsts) |->
            [module |-> mod[nth(r)], serviceName |-> services[lastOf(nth(r))].name]]

\* the service-derived module names in discovery order, 0-based
ModuleAt(g) == serviceModules[g + 1].module

\* the entries of the Map whose service base the handler of the route at
\* position i contains
Qualifying(i) ==
    {e \in 1..Len(serviceModules) :
        /\ routes[i].handler # <<>>
        /\ Includes(ToLowerCase(routes[i].handler),
                    ServiceBase(serviceModules[e].serviceName))}

FirstQualifying(i) ==
    LET q == Qualifying(i)
    IN  serviceModules[CHOOSE e \in q : \A e2 \in q : e <= e2].module

\* the name the path strategies of lines 750-775 give the route at position i
PathBased(i) == Sanitize(Strategy2(serviceModules, routes[i], i - 1))

\* C3 as stated: step (a) assigns the route to a service's module exactly
\* when the (non-empty) lower-cased handler is a substring of the service's
\* base name, the first such service in discovery order winning
C3_HandlerInsideBase ==
    Ended => \A i \in Named :
        LET inside == {k \in NamedServices :
                          /\ routes[i].handler # <<>>
                          /\ Includes(ServiceBase(services[k].name),
                                      ToLowerCase(routes[i].handler))}
        IN  NameGiven(i) =
                IF inside # {}
                THEN Sanitize(extractModuleFromName(
                         services[CHOOSE k \in inside : \A k2 \in inside : k <= k2].name))
                ELSE PathBased(i)

\* C3 amended: step (a) assigns the route to a module exactly when the handler
\* is non-empty and its lower-cased text contains the base name of the service
\* remembered for that module; the first such module in discovery order wins,
\* before any path-based name; the key is the sanitized module name
C3_BaseInsideHandler ==
    Ended =>
    /\ serviceModules = DescribedMap
    /\ \A i \in Named :
          NameGiven(i) =
              IF Qualifying(i) # {} THEN Sanitize(FirstQualifying(i)) ELSE PathBased(i)

\* a route filed by step (a) where two modules qualify and the winner's
\* remembered service is not the first service that derives the module
C3_Witness ==
    \E i \in 1..index :
        /\ Cardinality(Qualifying(i)) >= 2
        /\ KeyOf(i) = FirstQualifying(i)
        /\ KeyOf(i) # PathBased(i)
        /\ Len(serviceModules) < Cardinality(NamedServices)

\* every segment of the path is empty or starts with ':'
NoUsableSegment(path) ==
    /\ path # STR_slash
    /\ path # <<>>
    /\ \A p \in 1..Len(path) :
          (path[p] # "/" /\ (p = 1 \/ path[p - 1] = "/")) => path[p] = ":"

\* the round-robin name of the claim for the route at position i
GroupModule(i) ==
    IF (i - 1) \div 3 < Len(serviceModules)
    THEN ModuleAt((i - 1) \div 3)
    ELSE STR_app

\* C4 as stated: a route step (a) does not match and whose path has no usable
\* segment is filed under the floor(i/3)-th service-derived module name, or
\* under "app" when there is no such name
C4_RoundRobin ==
    Ended => \A i \in Named :
        (Qualifying(i) = {} /\ NoUsableSegment(routes[i].path))
            => NameGiven(i) = GroupModule(i)

\* C4 amended: such a route is filed under the sanitized form of the
\* floor(i/3)-th service-derived module name, or under "app"
C4_RoundRobinSanitized ==
    Ended => \A i \in Named :
        (Qualifying(i) = {} /\ NoUsableSegment(routes[i].path))
            => NameGiven(i) = Sanitize(GroupModule(i))

\* the fourth route of the list is filed by round-robin under the second of
\* two module names
C4_Witness ==
    /\ index >= 4
    /\ Qualifying(4) = {} /\ NoUsableSegment(routes[4].path)
    /\ Len(serviceModules) >= 2
    /\ KeyOf(4) = Sanitize(ModuleAt(1))
    /\ KeyOf(4) # Sanitize(ModuleAt(0))

\* the first non-empty segment of the path that does not start with ':'
FirstUsableSegment(path) ==
    LET starts == {p \in 1..Len(path) :
                      path[p] \notin {"/", ":"} /\ (p = 1 \/ path[p - 1] = "/")}
        from == CHOOSE p \in starts : \A p2 \in starts : p <= p2
        ends == {q \in from..Len(path) : q = Len(path) \/ path[q + 1] = "/"}
        to == CHOOSE q \in ends : \A q2 \in ends : q <= q2
    IN  SubSeq(path, from, to)

IsRootPath(path) == path = STR_slash \/ path = <<>>

\* C5 as stated: a route step (a) does not match is named "app" if and only if
\* its path is "/" or empty; otherwise, with a usable segment, it is named by
\* the lower-cased first such segment, sanitized
C5_AppIffRoot ==
    Ended => \A i \in Named :
        Qualifying(i) = {} =>
            /\ (NameGiven(i) = STR_app <=> IsRootPath(routes[i].path))
            /\ (~IsRootPath(routes[i].path) /\ ~NoUsableSegment(routes[i].path))
                  => NameGiven(i) = Sanitize(ToLowerCase(FirstUsableSegment(routes[i].path)))

\* C5 amended: a route step (a) does not match is named "app" if its path is
\* "/" or empty; otherwise, with a usable segment, it is named by the
\* lower-cased first such segment, sanitized
C5_AppIfRoot ==
    Ended => \A i \in Named :
        Qualifying(i) = {} =>
            /\ (IsRootPath(routes[i].path) => NameGiven(i) = STR_app)
            /\ (~IsRootPath(routes[i].path) /\ ~NoUsableSegment(routes[i].path))
                  => NameGiven(i) = Sanitize(ToLowerCase(FirstUsableSegment(routes[i].path)))

\* routes filed by the path strategy: one with path "/", one with an empty
\* path and one under a lower-cased, sanitized segment that follows a
\* parameter segment
C5_Witness ==
    /\ \E i \in 1..index :
          Qualifying(i) = {} /\ routes[i].path = STR_slash /\ KeyOf(i) = STR_app
    /\ \E i \in 1..index :
          Qualifying(i) = {} /\ routes[i].path = <<>> /\ KeyOf(i) = STR_app
    /\ \E i \in 1..index :
          Qualifying(i) = {} /\ routes[i].path = P_seg /\ KeyOf(i) = <<"a","_","b">>

\* C6: with no controller producing a module, the returned mapping is a
\* partition of the input routes that keeps their relative order
C6_FallbackPartition ==
    (pc = "done" /\ Owning = {}) =>
        /\ \A i \in 1..Len(routes) :
              Cardinality({p \in UNION {{<<k, j>> : j \in 1..Len(chunks[k].routes)} :
                                           k \in 1..Len(chunks)} :
                              chunks[p[1]].routes[p[2]] = i}) = 1
        /\ \A k \in 1..Len(chunks) :
              /\ \A j \in 1..Len(chunks[k].routes) : chunks[k].routes[j] \in 1..Len(routes)
              /\ \A j1, j2 \in 1..Len(chunks[k].routes) :
                    j1 < j2 => chunks[k].routes[j1] < chunks[k].routes[j2]
              /\ \A k2 \in 1..Len(chunks) : chunks[k2].name = chunks[k].name => k2 = k

\* a finished fallback call that spread four or more routes over two or more
\* modules, one of them holding several routes
C6_Witness ==
    /\ pc = "done" /\ Owning = {}
    /\ Len(routes) >= 4
    /\ Len(chunks) >= 2
    /\ \E k \in 1..Len(chunks) : Len(chunks[k].routes) >= 2

(***************************************************************************)
(* extractModuleFromName on its own: the names that are explored.          *)
(***************************************************************************)
MaxStemLen == 2

StemChars == {"a", "y", "s", "Y"}

Stems == UNION {[1..n -> StemChars] : n \in 0..MaxStemLen}

N_Company == <<"C","o","m","p","a","n","y">>

\* what a name ends with: a suffix of the list in some case, two of them,
\* something that only resembles one, or nothing
Endings ==
    { <<>>, STR_Service, STR_Controller, STR_Dto, STR_Entity, STR_Model, STR_Type,
      STR_Interface, <<"s","e","r","v","i","c","e">>, <<"S","E","R","V","I","C","E">>, <<"S","e","r","v","i","c","e","s">>, <<"S","e","r","v","i","c","e","D","t","o">>,
      <<"C","o","n","t","r","o","l","l","e","r","T","y","p","e">>, <<"T","y","p">> }

Names ==
    {Undefined, N_Users \o STR_Service, N_Company \o STR_Service,
     N_Order \o STR_Controller}
        \cup {stem \o ending : stem \in Stems, ending \in Endings}

NameInit == name \in Names /\ nameRet = NotCalled

\* lines 790-806
ExtractModuleFromName ==
    /\ nameRet = NotCalled
    /\ nameRet' = extractModuleFromName(name)
    /\ UNCHANGED name

SpecNameInit == NameInit /\ GroupIdle /\ HandlerIdle /\ PathIdle /\ ExtractIdle /\ OthersIdle
SpecNameNext ==
    ExtractModuleFromName
        /\ UNCHANGED <<groupVars, handlerVars, pathVars, extractVars, otherVars>>
SpecName == SpecNameInit /\ [][SpecNameNext]_vars

\* the lower-cased suffixes of the claim
ClaimSuffixes ==
    {<<"s","e","r","v","i","c","e">>, <<"c","o","n","t","r","o","l","l","e","r">>, <<"d","t","o">>, <<"e","n","t","i","t","y">>, <<"m","o","d","e","l">>, <<"t","y","p","e">>,
     <<"i","n","t","e","r","f","a","c","e">>}

\* C7: null for an empty or undefined name; otherwise one suffix at the end is
\* stripped without regard to case, the rest is lower-cased and pluralized
\* (y -> ies, s unchanged, else s appended); the result ends in "s" and is a
\* fixed point of the function; the three names of the specification give
\* users, companies and orders
C7_ModuleNaming ==
    nameRet # NotCalled =>
        IF name = Undefined \/ name = <<>>
        THEN nameRet = Null
        ELSE LET low == ToLowerCase(name)
                 ends == {x \in ClaimSuffixes : EndsWith(low, x)}
                 rest == IF ends = {} THEN low
                         ELSE SubSeq(low, 1, Len(low) - Len(CHOOSE x \in ends : TRUE))
                 last == IF rest = <<>> THEN "" ELSE rest[Len(rest)]
             IN  /\ Cardinality(ends) <= 1
                 /\ nameRet = (IF last = "y" THEN SubSeq(rest, 1, Len(rest) - 1) \o <<"i","e","s">>
                               ELSE IF last = "s" THEN rest
                               ELSE rest \o <<"s">>)
                 /\ nameRet[Len(nameRet)] = "s"
                 /\ extractModuleFromName(nameRet) = nameRet
                 /\ name = <<"U","s","e","r","s","S","e","r","v","i","c","e">> => nameRet = <<"u","s","e","r","s">>
                 /\ name = <<"C","o","m","p","a","n","y","S","e","r","v","i","c","e">> => nameRet = <<"c","o","m","p","a","n","i","e","s">>
                 /\ name = <<"O","r","d","e","r","C","o","n","t","r","o","l","l","e","r">> => nameRet = <<"o","r","d","e","r","s">>

\* the call on CompanyService has returned companies
C7_Witness == name = <<"C","o","m","p","a","n","y","S","e","r","v","i","c","e">> /\ nameRet = <<"c","o","m","p","a","n","i","e","s">>

(***************************************************************************)
(* The regular expressions of GenericExtractor, character by character.    *)
(***************************************************************************)
\* the last position of the run of \w characters that starts at i; i - 1
\* when there is none
WordRunEnd(s, i) ==
    LET stops == {j \in i..Len(s) : ~IsWordChar(s[j])}
    IN  IF stops = {} THEN Len(s) ELSE SetMin(stops) - 1

\* the same for the run of \s characters
SpaceRunEnd(s, i) ==
    LET stops == {j \in i..Len(s) : s[j] \notin WhiteSpace}
    IN  IF stops = {} THEN Len(s) ELSE SetMin(stops) - 1

\* s.match(/(\w+)\s*LIT/) for a literal that starts with neither \w nor \s:
\* the capture of the leftmost match, <<>> when nothing matches
WordBefore(s, lit) ==
    LET hits == {i \in 1..Len(s) :
                    /\ IsWordChar(s[i])
                    /\ StartsWithAt(s, SpaceRunEnd(s, WordRunEnd(s, i) + 1) + 1, lit)}
    IN  IF hits = {} THEN <<>>
        ELSE <<SubSeq(s, SetMin(hits), WordRunEnd(s, SetMin(hits)))>>

\* s.match(/KW\s+(\w+)/): the capture of the leftmost match, <<>> when
\* nothing matches
WordAfter(s, kw) ==
    LET nameAt(i) == SpaceRunEnd(s, i + Len(kw)) + 1
        hits == {i \in 1..Len(s) :
                    /\ StartsWithAt(s, i, kw)
                    /\ nameAt(i) > i + Len(kw)
                    /\ nameAt(i) <= Len(s)
                    /\ IsWordChar(s[nameAt(i)])}
    IN  IF hits = {} THEN <<>>
        ELSE <<SubSeq(s, nameAt(SetMin(hits)), WordRunEnd(s, nameAt(SetMin(hits))))>>

STR_arrow == <<"=",">">>
STR_function == <<"f","u","n","c","t","i","o","n">>
STR_async == <<"a","s","y","n","c">>
STR_lparen == <<"(">>

\* lines 350-361
extractHandlerName(code) ==
    LET arrowMatch == WordBefore(code, STR_arrow)
        functionMatch == WordAfter(code, STR_function)
        asyncMatch == WordAfter(code, STR_async)
    IN  IF arrowMatch # <<>> THEN arrowMatch[1]
        ELSE IF functionMatch # <<>> THEN functionMatch[1]
        ELSE IF asyncMatch # <<>> THEN asyncMatch[1]
        ELSE STR_anonymous

(***************************************************************************)
(* extractHandlerName on its own: the handler texts that are explored.     *)
(***************************************************************************)
T_constGetUsers == <<"c","o","n","s","t"," ","g","e","t","U","s","e","r","s"," ","="," ">>
T_arrow2 == <<"(","r","e","q",",","r","e","s",")"," ","=",">"," ","{","}">>

HandlerLeads ==
    { <<>>, T_constGetUsers, <<"a","s","y","n","c"," ">>, <<"e","x","p","o","r","t"," ">>, <<" "," ">>,
      <<"m","o","d","u","l","e",".","e","x","p","o","r","t","s",".","l","i","s","t"," ","="," ">> }

HandlerNames == { <<"g","e","t","U","s","e","r","s">>, <<"l","i","s","t","_","1">> }

HandlerShapes ==
    { T_arrow2, <<"r","e","q","u","e","s","t"," ","=",">"," ","r","e","s","p","o","n","s","e",".","s","t","a","t","u","s","(","2","0","0",")",".","j","s","o","n","(","u","s","e","r","s",")">>, <<"f","u","n","c","t","i","o","n"," ","(","r","e","q",","," ","r","e","s",")"," ","{","}">>, <<"f","u","n","c","t","i","o","n">> }
        \cup {<<"f","u","n","c","t","i","o","n"," ">> \o f \o <<"(","r","e","q",","," ","r","e","s",")"," ","{","}">> : f \in HandlerNames}
        \cup HandlerNames
        \cup {f \o <<"(","r","e","q">> : f \in HandlerNames}

HandlerCodes == {lead \o shape : lead \in HandlerLeads, shape \in HandlerShapes}

HandlerInit == handlerCode \in HandlerCodes /\ handlerRet = NotCalled

ExtractHandlerName ==
    /\ handlerRet = NotCalled
    /\ handlerRet' = extractHandlerName(handlerCode)
    /\ UNCHANGED handlerCode

SpecHandlerInit ==
    HandlerInit /\ GroupIdle /\ NameIdle /\ PathIdle /\ ExtractIdle /\ OthersIdle
SpecHandlerNext ==
    ExtractHandlerName /\ UNCHANGED <<groupVars, nameVars, pathVars, extractVars, otherVars>>
SpecHandler == SpecHandlerInit /\ [][SpecHandlerNext]_vars

\* the text assigns an arrow function to a name: const <name> = ... => ...
IsBoundArrow(code) ==
    /\ StartsWith(code, <<"c","o","n","s","t"," ">>)
    /\ Includes(code, STR_arrow)
    /\ ~Includes(code, STR_function)

BoundName(code) == SubSeq(code, 7, WordRunEnd(code, 7))

\* C9: the handler name is the name an inline function is assigned to, else
\* the name of a `function <name>` declaration, else the name that follows
\* async, else "anonymous"
C9_HandlerResolution ==
    handlerRet # NotCalled =>
        handlerRet =
            IF IsBoundArrow(handlerCode) THEN BoundName(handlerCode)
            ELSE IF WordAfter(handlerCode, STR_function) # <<>>
                 THEN WordAfter(handlerCode, STR_function)[1]
            ELSE IF WordAfter(handlerCode, STR_async) # <<>>
                 THEN WordAfter(handlerCode, STR_async)[1]
            ELSE STR_anonymous

(***************************************************************************)
(* Declarations as ts-morph hands them to GenericExtractor.                *)
(*   decorator: [name, args]       args: the source text of each argument  *)
(*   parameter: [name, type, optional, decorators]   type <<>>: no type    *)
(*   method:    [name, decorators, parameters, returnType, modifiers]      *)
(*   class:     [name, decorators, methods]          name <<>>: no name    *)
(***************************************************************************)
Dec(n, as) == [name |-> n, args |-> as]
Par(n, t, o, ds) == [name |-> n, type |-> t, optional |-> o, decorators |-> ds]
Mth(n, ds, ps) ==
    [name |-> n, decorators |-> ds, parameters |-> ps, returnType |-> <<>>,
     modifiers |-> {}]
Cls(n, ds, ms) == [name |-> n, decorators |-> ds, methods |-> ms]

STR_Get == <<"G","e","t">>
STR_Post == <<"P","o","s","t">>
STR_Put == <<"P","u","t">>
STR_Delete == <<"D","e","l","e","t","e">>
STR_Patch == <<"P","a","t","c","h">>
STR_All == <<"A","l","l">>
STR_Injectable == <<"I","n","j","e","c","t","a","b","l","e">>
STR_any == <<"a","n","y">>

\* lines 401 and 413
RouteDecoratorNames == {STR_Get, STR_Post, STR_Put, STR_Delete, STR_Patch, STR_All}

\* decorators.find(d => names.includes(d.getName())): <<>> or <<decorator>>
FindDecorator(decorators, names) ==
    LET hits == {i \in 1..Len(decorators) : decorators[i].name \in names}
    IN  IF hits = {} THEN <<>> ELSE <<decorators[SetMin(hits)]>>

\* text.replace(/['"]/g, '')
StripQuotes(text) == SelectSeq(text, LAMBDA c : c \notin {"'", "\""})

\* lines 421-425
RoutePathOf(routeDecorator) ==
    IF Len(routeDecorator.args) > 0
    THEN (IF StripQuotes(routeDecorator.args[1]) # <<>>
          THEN StripQuotes(routeDecorator.args[1])
          ELSE STR_slash)
    ELSE STR_slash

\* lines 428-435
BasePathOf(class) ==
    LET controllerDecorator == FindDecorator(class.decorators, {STR_Controller})
    IN  IF controllerDecorator # <<>> /\ Len(controllerDecorator[1].args) > 0
        THEN StripQuotes(controllerDecorator[1].args[1])
        ELSE <<>>

\* the mutant joins the route path as written, keeping its leading slash
CombinePathKeepsSlash(basePath, routePath) ==
    IF basePath # <<>>
    THEN STR_slash \o basePath
             \o (IF routePath = STR_slash THEN <<>> ELSE STR_slash \o routePath)
    ELSE routePath

\* lines 438-442
CombinePath(basePath, routePath) ==
    IF basePath # <<>>
    THEN STR_slash \o basePath
             \o (IF routePath = STR_slash THEN <<>>
                 ELSE STR_slash \o (IF StartsWith(routePath, STR_slash)
                                    THEN Tail(routePath)
                                    ELSE routePath))
    ELSE routePath

\* lines 449-454
RouteParameter(param) ==
    [name |-> param.name,
     type |-> IF param.type # <<>> THEN param.type ELSE STR_any,
     optional |-> param.optional,
     decorator |-> IF Len(param.decorators) > 0 THEN param.decorators[1] ELSE Undefined]

\* lines 407-457: <<>> for null, else the route
extractRouteFromMethod(m, class) ==
    LET routeDecorator == FindDecorator(m.decorators, RouteDecoratorNames)
    IN  IF routeDecorator = <<>> THEN <<>>
        ELSE <<[path |-> CombinePath(BasePathOf(class), RoutePathOf(routeDecorator[1])),
                method |-> ToUpperCase(routeDecorator[1].name),
                handler |-> m.name,
                middleware |-> <<>>,
                parameters |-> [i \in 1..Len(m.parameters) |->
                                   RouteParameter(m.parameters[i])],
                framework |-> "nestjs"]>>

(***************************************************************************)
(* extractRouteFromMethod on its own: the declarations that are explored.  *)
(***************************************************************************)
A_users == <<"'","u","s","e","r","s","'">>
A_slashId == <<"'","/",":","i","d","'">>

ControllerArgs ==
    { <<>>, <<<<"'","'">>>>, <<A_users>>, <<<<"\"","u","s","e","r","s","\"">>>>, <<<<"'","/","u","s","e","r","s","'">>>>,
      <<<<"'","a","p","i","/","v","1","'">>, <<"'","x","'">>>> }

RouteArgs ==
    { <<>>, <<<<"'","'">>>>, <<<<"'","/","'">>>>, <<<<"'",":","i","d","'">>>>, <<A_slashId>>, <<<<"'","/","/","x","'">>>>,
      <<<<"\"","l","i","s","t","\"">>>>, <<<<"'","a","/","'">>, <<"'","b","'">>>> }

STR_UseGuards == <<"U","s","e","G","u","a","r","d","s">>
STR_list == <<"l","i","s","t">>

PathClasses ==
    {Cls(N_Users \o STR_Controller, <<>>, <<>>)}
        \cup {Cls(N_Users, <<Dec(STR_Injectable, <<>>), Dec(STR_Controller, as)>>, <<>>) :
                 as \in ControllerArgs}

PathMethods ==
    {Mth(STR_list, <<Dec(STR_UseGuards, <<<<"A","u","t","h">>>>)>>, <<>>)}
        \cup {Mth(STR_list, <<Dec(STR_Get, as)>>, <<>>) : as \in RouteArgs}
        \cup {Mth(STR_list, <<Dec(STR_UseGuards, <<>>), Dec(STR_Patch, <<A_slashId>>),
                          Dec(STR_Get, <<<<"'","/","'">>>>)>>,
                  <<Par(<<"i","d">>, <<"s","t","r","i","n","g">>, FALSE, <<<<"P","a","r","a","m">>>>),
                    Par(<<"q">>, <<>>, TRUE, <<>>)>>)}

PathInit ==
    /\ method \in PathMethods
    /\ classDecl \in PathClasses
    /\ routeRet = [called |-> FALSE, value |-> <<>>]

ExtractRouteFromMethod ==
    /\ ~routeRet.called
    /\ routeRet' = [called |-> TRUE, value |-> extractRouteFromMethod(method, classDecl)]
    /\ UNCHANGED <<method, classDecl>>

SpecPathInit == PathInit /\ GroupIdle /\ NameIdle /\ HandlerIdle /\ ExtractIdle /\ OthersIdle
SpecPathNext ==
    ExtractRouteFromMethod
        /\ UNCHANGED <<groupVars, nameVars, handlerVars, extractVars, otherVars>>
SpecPath == SpecPathInit /\ [][SpecPathNext]_vars

\* the base path and the route path of the call that has returned a route
CalledBasePath == BasePathOf(classDecl)
CalledRoutePath == RoutePathOf(FindDecorator(method.decorators, RouteDecoratorNames)[1])

\* C10: with a non-empty base path the route's path is "/" + basePath, then
\* nothing when routePath is "/" and else "/" + routePath less one leading
\* slash; with an empty base path it is routePath; routePath is "/" when the
\* route annotation has no argument; users with /:id gives /users/:id and an
\* empty base with / gives /
C10_PathComposition ==
    (routeRet.called /\ routeRet.value # <<>>) =>
        LET base == CalledBasePath
            rp == CalledRoutePath
            path == routeRet.value[1].path
        IN  /\ base # <<>> /\ rp = <<"/">> => path = <<"/">> \o base
            /\ base # <<>> /\ rp # <<"/">> /\ rp[1] = "/" =>
                  path = <<"/">> \o base \o rp
            /\ base # <<>> /\ rp # <<"/">> /\ rp[1] # "/" =>
                  path = <<"/">> \o base \o <<"/">> \o rp
            /\ base = <<>> => path = rp
            /\ FindDecorator(method.decorators, RouteDecoratorNames)[1].args = <<>>
                  => rp = <<"/">>
            /\ base = <<"u","s","e","r","s">> /\ rp = <<"/",":","i","d">> => path = <<"/","u","s","e","r","s","/",":","i","d">>
            /\ base = <<>> /\ rp = <<"/">> => path = <<"/">>

\* the call with base path users and route path /:id has returned /users/:id
C10_Witness ==
    /\ routeRet.called /\ routeRet.value # <<>>
    /\ CalledBasePath = <<"u","s","e","r","s">>
    /\ CalledRoutePath = <<"/",":","i","d">>
    /\ routeRet.value[1].path = <<"/","u","s","e","r","s","/",":","i","d">>

(***************************************************************************)
(* Source files as the ts-morph project holds them: a path and top-level   *)
(* statements.  A statement is a call-style registration, a class, an      *)
(* interface, a type alias or an enum.                                     *)
(*   property: [name, type, optional]            type <<>>: no type node   *)
(***************************************************************************)
Call(r, v, p, h) == [kind |-> "call", receiver |-> r, verb |-> v, path |-> p, handler |-> h]
ClassSt(c) == [kind |-> "class", decl |-> c]
InterfaceSt(n, ps) == [kind |-> "interface", name |-> n, properties |-> ps]
TypeAliasSt(n) == [kind |-> "type", name |-> n]
EnumSt(n, ms) == [kind |-> "enum", name |-> n, members |-> ms]
Prop(n, t, o) == [name |-> n, type |-> t, optional |-> o]
File(p, sts) == [filePath |-> p, statements |-> sts]

RECURSIVE Concat(_)
Concat(seqs) == IF seqs = <<>> THEN <<>> ELSE Head(seqs) \o Concat(Tail(seqs))

RECURSIVE Join(_, _)
Join(seqs, sep) ==
    IF seqs = <<>> THEN <<>>
    ELSE IF Len(seqs) = 1 THEN seqs[1]
    ELSE seqs[1] \o sep \o Join(Tail(seqs), sep)

NL == <<"\n">>
STR_commaSpace == <<",", " ">>

\* the text of the declarations: what sourceFile.getFullText() reads
DecoratorText(d) == <<"@">> \o d.name \o <<"(">> \o Join(d.args, STR_commaSpace) \o <<")">>

ParameterText(p) ==
    Concat([i \in 1..Len(p.decorators) |-> <<"@">> \o p.decorators[i] \o <<"(",")"," ">>])
        \o p.name \o (IF p.optional THEN <<"?">> ELSE <<>>)
        \o (IF p.type # <<>> THEN <<":"," ">> \o p.type ELSE <<>>)

MethodText(m) ==
    Concat([i \in 1..Len(m.decorators) |-> <<" "," ">> \o DecoratorText(m.decorators[i]) \o NL])
        \o <<" "," ">>
        \o (IF "private" \in m.modifiers THEN <<"p","r","i","v","a","t","e"," ">> ELSE <<>>)
        \o (IF "protected" \in m.modifiers THEN <<"p","r","o","t","e","c","t","e","d"," ">> ELSE <<>>)
        \o m.name \o <<"(">>
        \o Join([i \in 1..Len(m.parameters) |-> ParameterText(m.parameters[i])],
                STR_commaSpace)
        \o <<")">>
        \o (IF m.returnType # <<>> THEN <<":"," ">> \o m.returnType ELSE <<>>)
        \o <<" ","{","}">> \o NL

ClassText(c) ==
    Concat([i \in 1..Len(c.decorators) |-> DecoratorText(c.decorators[i]) \o NL])
        \o <<"e","x","p","o","r","t"," ","c","l","a","s","s"," ">> \o c.name \o <<" ","{">> \o NL
        \o Concat([i \in 1..Len(c.methods) |-> MethodText(c.methods[i])])
        \o <<"}">> \o NL

PropertyText(p) ==
    p.name \o (IF p.optional THEN <<"?">> ELSE <<>>)
        \o (IF p.type # <<>> THEN <<":"," ">> \o p.type ELSE <<>>) \o <<";"," ">>

StatementText(st) ==
    CASE st.kind = "call" ->
            st.receiver \o <<".">> \o st.verb \o <<"(">> \o st.path \o STR_commaSpace
                \o st.handler \o <<")">> \o NL
      [] st.kind = "class" -> ClassText(st.decl)
      [] st.kind = "interface" ->
            <<"e","x","p","o","r","t"," ","i","n","t","e","r","f","a","c","e"," ">> \o st.name \o <<" ","{"," ">>
                \o Concat([i \in 1..Len(st.properties) |-> PropertyText(st.properties[i])])
                \o <<"}">> \o NL
      [] st.kind = "type" -> <<"e","x","p","o","r","t"," ","t","y","p","e"," ">> \o st.name \o <<" ","="," ","s","t","r","i","n","g">> \o NL
      [] st.kind = "enum" ->
            <<"e","x","p","o","r","t"," ","e","n","u","m"," ">> \o st.name \o <<" ","{"," ">> \o Join(st.members, STR_commaSpace)
                \o <<" ","}">> \o NL

getFullText(sourceFile) ==
    Concat([i \in 1..Len(sourceFile.statements) |-> StatementText(sourceFile.statements[i])])

\* sourceFile.getClasses()
getClasses(sourceFile) ==
    LET sts == SelectSeq(sourceFile.statements, LAMBDA st : st.kind = "class")
    IN  [i \in 1..Len(sts) |-> sts[i].decl]

\* sourceFile.getInterfaces(), getTypeAliases(), getEnums()
getStatements(sourceFile, kind) ==
    SelectSeq(sourceFile.statements, LAMBDA st : st.kind = kind)

(***************************************************************************)
(* The text scan: extractRoutes and the helpers it calls.                  *)
(***************************************************************************)
STR_get == <<"g","e","t">>
STR_post == <<"p","o","s","t">>
STR_put == <<"p","u","t">>
STR_delete == <<"d","e","l","e","t","e">>
STR_patch == <<"p","a","t","c","h">>
STR_router == <<"r","o","u","t","e","r">>
STR_fastify == <<"f","a","s","t","i","f","y">>
STR_GET == <<"G","E","T">>
\* the backquote character, which a string of this notation cannot hold
Backtick == "backquote"
QuoteChars == {"'", "\"", Backtick}

\* pattern.toString() of a call pattern of lines 180, 181, 187 and 190
CallPatternSource(receiver) ==
    <<"/">> \o receiver \o <<"\\", ".">> \o <<"(","g","e","t","|","p","o","s","t","|","p","u","t","|","d","e","l","e","t","e","|","p","a","t","c","h",")">>
        \o <<"\\", "(">> \o <<"[","'","\"",Backtick,"]","(","[","^","'","\"",Backtick,"]","+",")","[","'","\"",Backtick,"]",",">> \o <<"\\", "s", "*">>
        \o <<"(","[","^",",",")","]","+",")","/","g">>

\* pattern.toString() of the annotation pattern of line 184
AnnotationPatternSource ==
    <<"/","@","(","G","e","t","|","P","o","s","t","|","P","u","t","|","D","e","l","e","t","e","|","P","a","t","c","h",")">> \o <<"\\", "(">> \o <<"[","'","\"",Backtick,"]","(","[","^","'","\"",Backtick,"]","*",")","[","'","\"",Backtick,"]">>
        \o <<"\\", ")">> \o <<"/","g">>

\* a call pattern; what precedes the verb group, the verbs of the group, and
\* whether the third group is there
CallPattern(receiver) ==
    [source |-> CallPatternSource(receiver),
     lead |-> receiver \o <<".">>,
     verbs |-> <<STR_get, STR_post, STR_put, STR_delete, STR_patch>>,
     handlerGroup |-> TRUE]

AnnotationPattern ==
    [source |-> AnnotationPatternSource,
     lead |-> <<"@">>,
     verbs |-> <<STR_Get, STR_Post, STR_Put, STR_Delete, STR_Patch>>,
     handlerGroup |-> FALSE]

\* the mutant lists the router pattern once
routePatternsRouterOnce ==
    <<CallPattern(STR_app), CallPattern(STR_router), AnnotationPattern,
      CallPattern(STR_fastify)>>

\* lines 178-191
routePatterns ==
    <<CallPattern(STR_app), CallPattern(STR_router), AnnotationPattern,
      CallPattern(STR_fastify), CallPattern(STR_router)>>

\* the last position of the run of characters outside stops that starts at
\* i; i - 1 when there is none
RunEndBefore(s, i, stops) ==
    LET hits == {j \in i..Len(s) : s[j] \in stops}
    IN  IF hits = {} THEN Len(s) ELSE SetMin(hits) - 1

\* the match of the pattern that starts at position p: <<>> when there is
\* none, else its last position and its groups (group 3 <<>>: undefined)
MatchAt(text, p, pattern) ==
    LET verbAt == p + Len(pattern.lead)
        verbHits == {v \in 1..Len(pattern.verbs) :
                        StartsWithAt(text, verbAt, pattern.verbs[v] \o <<"(">>)}
    IN  IF ~StartsWithAt(text, p, pattern.lead) \/ verbHits = {} THEN <<>>
        ELSE
        LET verb == pattern.verbs[SetMin(verbHits)]
            open == verbAt + Len(verb) + 1
            pathEnd == RunEndBefore(text, open + 1, QuoteChars)
            close == pathEnd + 1
        IN  IF open > Len(text) \/ text[open] \notin QuoteChars \/ close > Len(text)
            THEN <<>>
            ELSE IF ~pattern.handlerGroup
            THEN (IF close + 1 <= Len(text) /\ text[close + 1] = ")"
                  THEN <<[index |-> p, last |-> close + 1, g1 |-> verb,
                          g2 |-> SubSeq(text, open + 1, pathEnd), g3 |-> <<>>]>>
                  ELSE <<>>)
            ELSE IF pathEnd < open + 1 \/ close + 1 > Len(text) \/ text[close + 1] # ","
            THEN <<>>
            ELSE
            LET spaceEnd == SpaceRunEnd(text, close + 2)
                handlerEnd == RunEndBefore(text, spaceEnd + 1, {",", ")"})
            IN  IF handlerEnd >= spaceEnd + 1
                THEN <<[index |-> p, last |-> handlerEnd, g1 |-> verb,
                        g2 |-> SubSeq(text, open + 1, pathEnd),
                        g3 |-> SubSeq(text, spaceEnd + 1, handlerEnd)]>>
                \* \s* gives its last character back to the third group
                ELSE IF spaceEnd >= close + 2
                THEN <<[index |-> p, last |-> spaceEnd, g1 |-> verb,
                        g2 |-> SubSeq(text, open + 1, pathEnd),
                        g3 |-> <<text[spaceEnd]>>]>>
                ELSE <<>>

\* the loop of pattern.exec(text) from lastIndex on: the matches in text order
RECURSIVE ExecAll(_, _, _)
ExecAll(text, pattern, lastIndex) ==
    LET hits == {p \in (lastIndex + 1)..Len(text) :
                    text[p] = pattern.lead[1] /\ MatchAt(text, p, pattern) # <<>>}
    IN  IF hits = {} THEN <<>>
        ELSE LET match == MatchAt(text, SetMin(hits), pattern)[1]
             IN  <<match>> \o ExecAll(text, pattern, match.last)

\* lines 331-334
extractMethod(match) == IF ToUpperCase(match.g1) # <<>> THEN ToUpperCase(match.g1) ELSE STR_GET

\* lines 336-338
extractPath(match) == IF match.g2 # <<>> THEN match.g2 ELSE STR_slash

\* lines 340-348
extractHandler(match, text) ==
    IF match.g3 # <<>> THEN extractHandlerName(match.g3)
    ELSE LET afterDecorator == Tail_(text, match.last + 1)
             methodMatch == WordBefore(afterDecorator, STR_lparen)
         IN  IF methodMatch # <<>> THEN methodMatch[1] ELSE STR_anonymous

\* lines 363-366
extractMiddleware(text, at) == <<>>

\* the mutant leaves the next parameter out
extractRouteParametersWithoutNext(handler) ==
    <<[name |-> <<"r","e","q">>, type |-> <<"R","e","q","u","e","s","t">>, optional |-> FALSE],
      [name |-> <<"r","e","s">>, type |-> <<"R","e","s","p","o","n","s","e">>, optional |-> FALSE]>>

\* lines 368-375
extractRouteParameters(handler) ==
    <<[name |-> <<"r","e","q">>, type |-> <<"R","e","q","u","e","s","t">>, optional |-> FALSE],
      [name |-> <<"r","e","s">>, type |-> <<"R","e","s","p","o","n","s","e">>, optional |-> FALSE],
      [name |-> <<"n","e","x","t">>, type |-> <<"N","e","x","t","F","u","n","c","t","i","o","n">>, optional |-> TRUE]>>

\* lines 377-385
detectFrameworkFromPattern(pattern) ==
    IF Includes(pattern.source, <<"@","(","G","e","t","|","P","o","s","t">>) THEN "nestjs"
    ELSE IF Includes(pattern.source, STR_fastify) THEN "fastify"
    ELSE IF Includes(pattern.source, STR_router) THEN "koa"
    ELSE "express"

\* the mutant takes the first match of a pattern only
RoutesOfPatternFirstMatch(text, pattern) ==
    LET all == ExecAll(text, pattern, 0)
        matches == IF all = <<>> THEN <<>> ELSE <<Head(all)>>
        framework == detectFrameworkFromPattern(pattern)
        routeOf(match) ==
            <<[path |-> extractPath(match),
               method |-> extractMethod(match),
               handler |-> extractHandler(match, text),
               middleware |-> extractMiddleware(text, match.index),
               parameters |-> extractRouteParameters(extractHandler(match, text)),
               framework |-> framework]>>
    IN  Concat([k \in 1..Len(matches) |-> routeOf(matches[k])])

\* lines 195-213: the routes of one pattern
RoutesOfPattern(text, pattern) ==
    LET matches == ExecAll(text, pattern, 0)
        framework == detectFrameworkFromPattern(pattern)
        routeOf(match) ==
            IF extractMethod(match) # <<>> /\ extractPath(match) # <<>>
            THEN <<[path |-> extractPath(match),
                    method |-> extractMethod(match),
                    handler |-> extractHandler(match, text),
                    middleware |-> extractMiddleware(text, match.index),
                    parameters |-> extractRouteParameters(extractHandler(match, text)),
                    framework |-> framework]>>
            ELSE <<>>
    IN  Concat([k \in 1..Len(matches) |-> routeOf(matches[k])])

\* lines 173-217
extractRoutes(sourceFile) ==
    LET text == getFullText(sourceFile)
    IN  Concat([k \in 1..Len(routePatterns) |-> RoutesOfPattern(text, routePatterns[k])])

(***************************************************************************)
(* The declaration scan.                                                   *)
(***************************************************************************)
STR_controller == <<"c","o","n","t","r","o","l","l","e","r">>
STR_service == <<"s","e","r","v","i","c","e">>

HasDecorator(decorators, names) == \E i \in 1..Len(decorators) : decorators[i].name \in names

\* the mutant takes a class for a controller by its decorator only
isControllerClassByDecorator(class) == HasDecorator(class.decorators, {STR_Controller})

\* lines 387-396
isControllerClass(class) ==
    \/ HasDecorator(class.decorators, {STR_Controller})
    \/ Includes(ToLowerCase(class.name), STR_controller)
    \/ EndsWith(ToLowerCase(class.name), STR_controller)

\* lines 398-405
isRouteMethod(m) == HasDecorator(m.decorators, RouteDecoratorNames)

\* lines 464-473
isServiceClass(class) ==
    \/ HasDecorator(class.decorators, {STR_Injectable})
    \/ Includes(ToLowerCase(class.name), STR_service)
    \/ EndsWith(ToLowerCase(class.name), STR_service)

\* the mutant tags by the Controller decorator alone
detectFrameworkFromClassControllerOnly(class) ==
    IF HasDecorator(class.decorators, {STR_Controller}) THEN "nestjs" ELSE "express"

\* lines 475-487
detectFrameworkFromClass(class) ==
    IF HasDecorator(class.decorators, {STR_Controller, STR_Injectable})
    THEN "nestjs" ELSE "express"

\* lines 226-236: the routes of one class
RoutesOfClass(class) ==
    LET routeMethods == SelectSeq(class.methods, isRouteMethod)
    IN  Concat([k \in 1..Len(routeMethods) |->
                   extractRouteFromMethod(routeMethods[k], class)])

\* lines 219-250
extractControllers(sourceFile) ==
    LET classes == getClasses(sourceFile)
        controllerOf(class) ==
            IF isControllerClass(class) /\ Len(RoutesOfClass(class)) > 0
            THEN <<[name |-> IF class.name # <<>> THEN class.name
                             ELSE <<"A","n","o","n","y","m","o","u","s","C","o","n","t","r","o","l","l","e","r">>,
                    routes |-> RoutesOfClass(class),
                    framework |-> detectFrameworkFromClass(class),
                    filePath |-> sourceFile.filePath]>>
            ELSE <<>>
    IN  Concat([k \in 1..Len(classes) |-> controllerOf(classes[k])])

\* lines 258-269
ServiceMethod(m) ==
    [name |-> m.name,
     parameters |-> [i \in 1..Len(m.parameters) |->
                        [name |-> m.parameters[i].name,
                         type |-> IF m.parameters[i].type # <<>>
                                  THEN m.parameters[i].type ELSE STR_any,
                         optional |-> m.parameters[i].optional]],
     returnType |-> IF m.returnType # <<>> THEN m.returnType ELSE <<"v","o","i","d">>,
     isPublic |-> "private" \notin m.modifiers /\ "protected" \notin m.modifiers]

\* the mutant leaves the controller classes out of the services
extractServicesExclusive(sourceFile) ==
    LET classes == getClasses(sourceFile)
        serviceOf(class) ==
            IF isServiceClass(class) /\ ~isControllerClass(class)
            THEN <<[name |-> IF class.name # <<>> THEN class.name
                             ELSE <<"A","n","o","n","y","m","o","u","s","S","e","r","v","i","c","e">>,
                    methods |-> [i \in 1..Len(class.methods) |->
                                    ServiceMethod(class.methods[i])],
                    filePath |-> sourceFile.filePath,
                    framework |-> detectFrameworkFromClass(class)]>>
            ELSE <<>>
    IN  Concat([k \in 1..Len(classes) |-> serviceOf(classes[k])])

\* lines 252-281
extractServices(sourceFile) ==
    LET classes == getClasses(sourceFile)
        serviceOf(class) ==
            IF isServiceClass(class)
            THEN <<[name |-> IF class.name # <<>> THEN class.name
                             ELSE <<"A","n","o","n","y","m","o","u","s","S","e","r","v","i","c","e">>,
                    methods |-> [i \in 1..Len(class.methods) |->
                                    ServiceMethod(class.methods[i])],
                    filePath |-> sourceFile.filePath,
                    framework |-> detectFrameworkFromClass(class)]>>
            ELSE <<>>
    IN  Concat([k \in 1..Len(classes) |-> serviceOf(classes[k])])

\* lines 283-328
extractTypes(sourceFile) ==
    LET interfaces == getStatements(sourceFile, "interface")
        typeAliases == getStatements(sourceFile, "type")
        enums == getStatements(sourceFile, "enum")
    IN  [i \in 1..Len(interfaces) |->
            [name |-> interfaces[i].name, type |-> "interface",
             filePath |-> sourceFile.filePath,
             properties |-> [k \in 1..Len(interfaces[i].properties) |->
                 [name |-> interfaces[i].properties[k].name,
                  type |-> IF interfaces[i].properties[k].type # <<>>
                           THEN interfaces[i].properties[k].type ELSE STR_any,
                  optional |-> interfaces[i].properties[k].optional]]]]
        \o [i \in 1..Len(typeAliases) |->
            [name |-> typeAliases[i].name, type |-> "type",
             filePath |-> sourceFile.filePath, properties |-> <<>>]]
        \o [i \in 1..Len(enums) |->
            [name |-> enums[i].name, type |-> "enum",
             filePath |-> sourceFile.filePath,
             properties |-> [k \in 1..Len(enums[i].members) |->
                 [name |-> enums[i].members[k], type |-> <<"s","t","r","i","n","g">>,
                  optional |-> FALSE]]]]

\* the mutant excludes the .spec. files only
shouldSkipFileSpecOnly(sourceFile) == Includes(sourceFile.filePath, <<".","s","p","e","c",".">>)

\* lines 489-496
shouldSkipFile(sourceFile) ==
    \/ Includes(sourceFile.filePath, <<"n","o","d","e","_","m","o","d","u","l","e","s">>)
    \/ Includes(sourceFile.filePath, <<".","s","p","e","c",".">>)
    \/ Includes(sourceFile.filePath, <<".","t","e","s","t",".">>)

(***************************************************************************)
(* extractAll: the source files that are explored.                         *)
(***************************************************************************)
Q_users == <<"'","/","u","s","e","r","s","'">>
N_UsersApi == <<"U","s","e","r","s","A","p","i">>
N_UsersController == N_Users \o STR_Controller

\* app.get and @Get in a class that is no controller
F_app ==
    File(<<"/","s","r","c","/","a","p","p",".","t","s">>,
         <<Call(STR_app, STR_get, Q_users, <<"g","e","t","U","s","e","r","s">>),
           ClassSt(Cls(N_UsersApi, <<>>, <<Mth(STR_list, <<Dec(STR_Get, <<Q_users>>)>>, <<>>)>>))>>)

\* router.get and @Get in a class that is a service and no controller
F_router ==
    File(<<"/","s","r","c","/","r","o","u","t","e","s","/","u","s","e","r","s",".","t","s">>,
         <<ClassSt(Cls(N_UsersApi, <<Dec(STR_Injectable, <<>>)>>,
                       <<Mth(STR_list, <<Dec(STR_Get, <<<<"\"","/","u","s","e","r","s","\"">>>>)>>, <<>>)>>)),
           Call(STR_router, STR_get, <<"\"","/","u","s","e","r","s","\"">>, <<"(","r","e","q",","," ","r","e","s",")"," ","=",">"," ","r","e","s",".","j","s","o","n","(","u","s","e","r","s",")">>)>>)

\* fastify.post and @Post in a class that is a controller by its decorator
F_fastify ==
    File(<<"/","s","r","c","/","s","e","r","v","e","r",".","t","s">>,
         <<Call(STR_fastify, STR_post, <<Backtick,"/","u","s","e","r","s",Backtick>>, <<"a","s","y","n","c"," ","f","u","n","c","t","i","o","n"," ","c","r","e","a","t","e","U","s","e","r","(","r","e","q","u","e","s","t",","," ","r","e","p","l","y",")"," ","{","}">>),
           ClassSt(Cls(N_UsersApi, <<Dec(STR_Controller, <<>>)>>,
                       <<Mth(<<"c","r","e","a","t","e">>, <<Dec(STR_Post, <<Q_users>>)>>,
                             <<Par(<<"d","t","o">>, <<"C","r","e","a","t","e","U","s","e","r","D","t","o">>, FALSE, <<<<"B","o","d","y">>>>)>>)>>))>>)

\* router.delete and @Delete in a class that is a controller by its name
F_routerController ==
    File(<<"/","s","r","c","/","u","s","e","r","s",".","c","o","n","t","r","o","l","l","e","r",".","t","s">>,
         <<Call(STR_router, STR_delete, <<"'","/","u","s","e","r","s","/",":","i","d","'">>, <<"r","e","m","o","v","e","U","s","e","r">>),
           ClassSt(Cls(N_UsersController, <<>>,
                       <<Mth(<<"r","e","m","o","v","e">>, <<Dec(STR_Delete, <<<<"'","/","u","s","e","r","s","/",":","i","d","'">>>>)>>,
                             <<Par(<<"i","d">>, <<"s","t","r","i","n","g">>, FALSE, <<<<"P","a","r","a","m">>>>)>>)>>))>>)

\* a test file with the statements of F_app
F_spec == File(<<"/","s","r","c","/","a","p","p",".","s","p","e","c",".","t","s">>, F_app.statements)

F_types ==
    File(<<"/","s","r","c","/","t","y","p","e","s",".","t","s">>,
         <<InterfaceSt(<<"U","s","e","r">>, <<Prop(<<"i","d">>, <<"n","u","m","b","e","r">>, FALSE), Prop(<<"n","a","m","e">>, <<>>, TRUE)>>),
           TypeAliasSt(<<"U","s","e","r","I","d">>),
           EnumSt(<<"R","o","l","e">>, <<<<"A","d","m","i","n">>, <<"G","u","e","s","t">>>>)>>)

\* a service, and a class that passes both class tests and has no route method
F_service ==
    File(<<"/","s","r","c","/","u","s","e","r","s",".","s","e","r","v","i","c","e",".","t","s">>,
         <<ClassSt(Cls(N_Users \o STR_Service, <<Dec(STR_Injectable, <<>>)>>,
                       <<[Mth(<<"f","i","n","d","A","l","l">>, <<>>, <<>>) EXCEPT !.returnType = <<"U","s","e","r","[","]">>],
                         [Mth(<<"a","u","d","i","t">>, <<>>, <<Par(<<"w","h","o">>, <<>>, TRUE, <<>>)>>)
                              EXCEPT !.modifiers = {"private"}]>>)),
           ClassSt(Cls(<<"A","d","m","i","n","C","o","n","t","r","o","l","l","e","r","S","e","r","v","i","c","e">>, <<>>, <<Mth(STR_list, <<>>, <<>>)>>))>>)

\* a decorated controller: routes without a path literal, an All route, and a
\* method that is no route
F_admin ==
    File(<<"/","s","r","c","/","a","d","m","i","n",".","c","o","n","t","r","o","l","l","e","r",".","t","s">>,
         <<ClassSt(Cls(N_Admin \o STR_Controller, <<Dec(STR_Controller, <<<<"'","a","d","m","i","n","'">>>>)>>,
                       <<Mth(STR_list, <<Dec(STR_UseGuards, <<<<"A","u","t","h","G","u","a","r","d">>>>), Dec(STR_Get, <<>>)>>, <<>>),
                         Mth(<<"a","n","y">>, <<Dec(STR_All, <<<<"'","*","'">>>>)>>, <<>>),
                         Mth(<<"h","e","l","p","e","r">>, <<Dec(STR_UseGuards, <<>>)>>, <<>>)>>))>>)

\* a class that is a controller and a service by its decorators, with a
\* method that carries two route decorators and a method that is no route
F_orders ==
    File(<<"/","s","r","c","/","o","r","d","e","r","s",".","t","s">>,
         <<ClassSt(Cls(<<"O","r","d","e","r","s","F","a","c","a","d","e">>,
                       <<Dec(STR_Injectable, <<>>), Dec(STR_Controller, <<<<"'","o","r","d","e","r","s","'">>>>)>>,
                       <<Mth(<<"f","i","n","d">>, <<Dec(STR_Patch, <<<<"'",":","i","d","'">>>>), Dec(STR_Get, <<<<"'","/","'">>>>)>>,
                             <<Par(<<"i","d">>, <<"s","t","r","i","n","g">>, FALSE, <<>>)>>),
                         Mth(<<"c","o","u","n","t">>, <<>>, <<>>)>>))>>)

\* a test file with the statements of F_admin, and a file of a dependency
\* with the statements of F_service and F_types
F_test == File(<<"/","s","r","c","/","a","d","m","i","n",".","c","o","n","t","r","o","l","l","e","r",".","t","e","s","t",".","t","s">>, F_admin.statements)
F_vendor == File(<<"/","a","p","p","/","n","o","d","e","_","m","o","d","u","l","e","s","/","p","k","g","/","i","n","d","e","x",".","t","s">>, F_service.statements \o F_types.statements)

Files ==
    {F_app, F_router, F_fastify, F_routerController, F_spec, F_types, F_service, F_admin,
     F_orders, F_test, F_vendor}

MaxFiles == 2
FileLists == UNION {[1..n -> Files] : n \in 0..MaxFiles}

ExtractInit ==
    /\ sourceFiles \in FileLists
    /\ fileIndex = 0
    /\ exRoutes = <<>> /\ exControllers = <<>> /\ exServices = <<>> /\ exTypes = <<>>

\* lines 147-149: an excluded file
SkipFile ==
    /\ fileIndex < Len(sourceFiles)
    /\ shouldSkipFile(sourceFiles[fileIndex + 1])
    /\ fileIndex' = fileIndex + 1
    /\ UNCHANGED <<sourceFiles, exRoutes, exControllers, exServices, exTypes>>

\* the mutant appends the routes of the text scan before the controllers' routes
ExtractFileTextScanFirst ==
    /\ fileIndex < Len(sourceFiles)
    /\ ~shouldSkipFile(sourceFiles[fileIndex + 1])
    /\ LET sourceFile == sourceFiles[fileIndex + 1]
           fileControllers == extractControllers(sourceFile)
       IN  /\ exControllers' = exControllers \o fileControllers
           /\ exRoutes' = exRoutes
                  \o extractRoutes(sourceFile)
                  \o Concat([k \in 1..Len(fileControllers) |-> fileControllers[k].routes])
           /\ exServices' = exServices \o extractServices(sourceFile)
           /\ exTypes' = exTypes \o extractTypes(sourceFile)
    /\ fileIndex' = fileIndex + 1
    /\ UNCHANGED sourceFiles

\* lines 147-167: one turn of the loop for a file that is not excluded
ExtractFile ==
    /\ fileIndex < Len(sourceFiles)
    /\ ~shouldSkipFile(sourceFiles[fileIndex + 1])
    /\ LET sourceFile == sourceFiles[fileIndex + 1]
           fileControllers == extractControllers(sourceFile)
       IN  /\ exControllers' = exControllers \o fileControllers
           /\ exRoutes' = exRoutes
                  \o Concat([k \in 1..Len(fileControllers) |-> fileControllers[k].routes])
                  \o extractRoutes(sourceFile)
           /\ exServices' = exServices \o extractServices(sourceFile)
           /\ exTypes' = exTypes \o extractTypes(sourceFile)
    /\ fileIndex' = fileIndex + 1
    /\ UNCHANGED sourceFiles

SpecExtractInit ==
    ExtractInit /\ GroupIdle /\ NameIdle /\ HandlerIdle /\ PathIdle /\ OthersIdle
SpecExtractNext ==
    (SkipFile \/ ExtractFile)
        /\ UNCHANGED <<groupVars, nameVars, handlerVars, pathVars, otherVars>>
SpecExtract == SpecExtractInit /\ [][SpecExtractNext]_vars

\* the call-style registrations of a file, and the route decorators with a
\* string literal for the path that its classes' methods carry
CallsOf(file) == SelectSeq(file.statements, LAMBDA st : st.kind = "call")
IsStringLiteral(text) ==
    Len(text) >= 2 /\ text[1] \in QuoteChars /\ text[Len(text)] = text[1]
AnnotationsOfClass(class) ==
    Concat([m \in 1..Len(class.methods) |->
               SelectSeq(class.methods[m].decorators,
                         LAMBDA d : /\ d.name \in {STR_Get, STR_Post, STR_Put, STR_Delete, STR_Patch}
                                    /\ Len(d.args) = 1
                                    /\ IsStringLiteral(d.args[1]))])
AnnotatedClasses(file) ==
    SelectSeq(getClasses(file), LAMBDA c : AnnotationsOfClass(c) # <<>>)
Unquoted(text) == SubSeq(text, 2, Len(text) - 1)

\* one call-style and one annotation-style registration of the same endpoint
\* in a file that is not excluded
TwiceRegistered(file) ==
    /\ ~shouldSkipFile(file)
    /\ Len(CallsOf(file)) = 1
    /\ CallsOf(file)[1].receiver \in {STR_app, STR_router, STR_fastify}
    /\ Len(AnnotatedClasses(file)) = 1
    /\ Len(AnnotationsOfClass(AnnotatedClasses(file)[1])) = 1
    /\ LET call == CallsOf(file)[1]
           annotation == AnnotationsOfClass(AnnotatedClasses(file)[1])[1]
       IN  /\ ToUpperCase(call.verb) = ToUpperCase(annotation.name)
           /\ Unquoted(call.path) = Unquoted(annotation.args[1])

\* the file the step that is being taken extracts
StepFile == sourceFiles[fileIndex + 1]
ExtractStep == fileIndex' = fileIndex + 1 /\ fileIndex < Len(sourceFiles)

\* C8 as stated: a file with one call-style and one annotation-style
\* registration of the same endpoint adds exactly 2 routes, whichever of app,
\* router and fastify the receiver is
C8_TwoRoutes ==
    [][(ExtractStep /\ TwiceRegistered(StepFile)) =>
           Len(exRoutes') = Len(exRoutes) + 2]_vars

\* C8: such a file adds one route per pattern that matches the call (one for
\* app and for fastify, two for router, which two patterns of the list
\* match), one route for the annotation from the text scan, and one more
\* from the declaration scan when the annotated class passes the controller
\* test; never fewer than 2 and never merged
C8_NoDeduplication ==
    [][(ExtractStep /\ TwiceRegistered(StepFile)) =>
           LET call == CallsOf(StepFile)[1]
               class == AnnotatedClasses(StepFile)[1]
               expected == (IF call.receiver = STR_router THEN 2 ELSE 1) + 1
                               + (IF isControllerClass(class) THEN 1 ELSE 0)
           IN  /\ Len(exRoutes') = Len(exRoutes) + expected
               /\ expected >= 2]_vars

\* the file with router.delete and @Delete in a controller class has been
\* extracted and has added 4 routes
C8_Witness ==
    /\ fileIndex = 1
    /\ sourceFiles[1] = F_routerController
    /\ TwiceRegistered(sourceFiles[1])
    /\ Len(exRoutes) = 4

(***************************************************************************)
(* Claims about the result of extractAll.                                  *)
(***************************************************************************)
\* the five methods of the Route entity
HttpMethods == {<<"G","E","T">>, <<"P","O","S","T">>, <<"P","U","T">>, <<"D","E","L","E","T","E">>, <<"P","A","T","C","H">>}

\* C11: every route of the routes list and of every controller's route list
\* has a method that is one of GET, POST, PUT, DELETE, PATCH
C11_MethodsKnown ==
    /\ \A i \in 1..Len(exRoutes) : exRoutes[i].method \in HttpMethods
    /\ \A k \in 1..Len(exControllers) :
          \A j \in 1..Len(exControllers[k].routes) :
              exControllers[k].routes[j].method \in HttpMethods


\* the files the loop has finished that are not excluded, in file order
Analysed == SelectSeq(SubSeq(sourceFiles, 1, fileIndex), LAMBDA f : ~shouldSkipFile(f))

\* the routes of the route methods of the controller classes of a file, in
\* class order and then method order
RECURSIVE ClassRoutes(_)
ClassRoutes(classes) ==
    IF classes = <<>> THEN <<>>
    ELSE (IF isControllerClass(Head(classes)) THEN RoutesOfClass(Head(classes)) ELSE <<>>)
             \o ClassRoutes(Tail(classes))

\* the number of matches the patterns of the list find in a text
RECURSIVE MatchCount(_, _)
MatchCount(text, k) ==
    IF k = 0 THEN 0
    ELSE Len(ExecAll(text, routePatterns[k], 0)) + MatchCount(text, k - 1)

\* per file, the controller routes followed by the pattern-matched routes
RECURSIVE DescribedRoutes(_)
DescribedRoutes(files) ==
    IF files = <<>> THEN <<>>
    ELSE ClassRoutes(getClasses(Head(files))) \o extractRoutes(Head(files))
             \o DescribedRoutes(Tail(files))

RECURSIVE SumOfMatches(_)
SumOfMatches(files) ==
    IF files = <<>> THEN 0
    ELSE MatchCount(getFullText(Head(files)), Len(routePatterns)) + SumOfMatches(Tail(files))

RECURSIVE SumOfOwned(_)
SumOfOwned(ctrls) ==
    IF ctrls = <<>> THEN 0 ELSE Len(Head(ctrls).routes) + SumOfOwned(Tail(ctrls))

\* C12: every route a controller of the result owns occurs in the routes list;
\* the routes list is, per analysed file in file order, the file's controller
\* routes in class and method order followed by its pattern-matched routes;
\* its length is the sum of the controllers' route counts plus the number of
\* pattern matches
C12_RoutesConcatenated ==
    /\ \A k \in 1..Len(exControllers) :
          \A j \in 1..Len(exControllers[k].routes) :
              \E i \in 1..Len(exRoutes) : exRoutes[i] = exControllers[k].routes[j]
    /\ exRoutes = DescribedRoutes(Analysed)
    /\ Len(exRoutes) = SumOfOwned(exControllers) + SumOfMatches(Analysed)

\* two files, each with a controller route and pattern matches, have been
\* analysed: 4 routes of the first followed by 3 of the second
C12_Witness ==
    /\ fileIndex = 2
    /\ sourceFiles = <<F_routerController, F_fastify>>
    /\ Len(exControllers) = 2
    /\ Len(exRoutes) = 7
    /\ exRoutes[1] = exControllers[1].routes[1]
    /\ exRoutes[5] = exControllers[2].routes[1]


\* the classes of the analysed files in file and class order, each with the
\* path of its file
RECURSIVE ClassesOf(_)
ClassesOf(files) ==
    IF files = <<>> THEN <<>>
    ELSE [i \in 1..Len(getClasses(Head(files))) |->
             [class |-> getClasses(Head(files))[i], filePath |-> Head(files).filePath]]
             \o ClassesOf(Tail(files))

\* the controller test and the route methods as the claims word them
PassesControllerTest(class) ==
    \/ \E d \in 1..Len(class.decorators) : class.decorators[d].name = <<"C","o","n","t","r","o","l","l","e","r">>
    \/ Includes(ToLowerCase(class.name), <<"c","o","n","t","r","o","l","l","e","r">>)
IsAnnotatedRoute(m) ==
    \E d \in 1..Len(m.decorators) :
        m.decorators[d].name \in {<<"G","e","t">>, <<"P","o","s","t">>, <<"P","u","t">>, <<"D","e","l","e","t","e">>, <<"P","a","t","c","h">>, <<"A","l","l">>}
AnnotatedRoutes(class) == SelectSeq(class.methods, IsAnnotatedRoute)

\* the classes that the claim says are controllers
DescribedControllers ==
    SelectSeq(ClassesOf(Analysed),
              LAMBDA c : PassesControllerTest(c.class) /\ AnnotatedRoutes(c.class) # <<>>)

\* C13: the controllers of the result are, in order, the analysed classes
\* that pass the controller test and have at least one route method; none
\* has an empty route list and each route method contributes one route
C13_ControllersEmitted ==
    /\ Len(exControllers) = Len(DescribedControllers)
    /\ \A k \in 1..Len(exControllers) :
          LET c == DescribedControllers[k]
              owned == exControllers[k].routes
          IN  /\ exControllers[k].name = c.class.name
              /\ exControllers[k].filePath = c.filePath
              /\ Len(owned) >= 1
              /\ Len(owned) = Len(AnnotatedRoutes(c.class))
              /\ \A j \in 1..Len(owned) : owned[j].handler = AnnotatedRoutes(c.class)[j].name

\* after a file whose class passes the controller test without a route method
\* and a file whose class has a route method with two route decorators, the
\* only controller is the second class, with one route
C13_Witness ==
    /\ fileIndex = 2
    /\ sourceFiles = <<F_service, F_orders>>
    /\ Len(exControllers) = 1
    /\ exControllers[1].name = <<"O","r","d","e","r","s","F","a","c","a","d","e">>
    /\ Len(exControllers[1].routes) = 1


\* the service test as the claim words it
PassesServiceTest(class) ==
    \/ \E d \in 1..Len(class.decorators) : class.decorators[d].name = <<"I","n","j","e","c","t","a","b","l","e">>
    \/ Includes(ToLowerCase(class.name), <<"s","e","r","v","i","c","e">>)

\* how often a list holds an entry for the class of that name and file
Emitted(list, c) ==
    Cardinality({k \in 1..Len(list) :
                    list[k].name = c.class.name /\ list[k].filePath = c.filePath})
Declared(c) == Cardinality({k \in 1..Len(ClassesOf(Analysed)) : ClassesOf(Analysed)[k] = c})

\* C14: an analysed class that passes the controller test and the service
\* test is emitted once among the services, and once among the controllers
\* when it has a route method and not at all when it has none
C14_BothClassifications ==
    \A k \in 1..Len(ClassesOf(Analysed)) :
        LET c == ClassesOf(Analysed)[k]
        IN  (PassesControllerTest(c.class) /\ PassesServiceTest(c.class)) =>
                /\ Emitted(exServices, c) = Declared(c)
                /\ Emitted(exControllers, c) =
                       IF AnnotatedRoutes(c.class) # <<>> THEN Declared(c) ELSE 0

\* a class that passes both tests without a route method is a service only,
\* a class that passes both with a route method is a controller and a service
C14_Witness ==
    /\ fileIndex = 2
    /\ sourceFiles = <<F_service, F_orders>>
    /\ \E k \in 1..Len(exServices) : exServices[k].name = <<"A","d","m","i","n","C","o","n","t","r","o","l","l","e","r","S","e","r","v","i","c","e">>
    /\ \A k \in 1..Len(exControllers) : exControllers[k].name # <<"A","d","m","i","n","C","o","n","t","r","o","l","l","e","r","S","e","r","v","i","c","e">>
    /\ \E k \in 1..Len(exServices) : exServices[k].name = <<"O","r","d","e","r","s","F","a","c","a","d","e">>
    /\ \E k \in 1..Len(exControllers) : exControllers[k].name = <<"O","r","d","e","r","s","F","a","c","a","d","e">>


\* the fixed parameters of the claim: req and res required, next optional
FixedParameters ==
    <<[name |-> <<"r","e","q">>, type |-> <<"R","e","q","u","e","s","t">>, optional |-> FALSE],
      [name |-> <<"r","e","s">>, type |-> <<"R","e","s","p","o","n","s","e">>, optional |-> FALSE],
      [name |-> <<"n","e","x","t">>, type |-> <<"N","e","x","t","F","u","n","c","t","i","o","n">>, optional |-> TRUE]>>

IsExcludedPath(path) ==
    \/ Includes(path, <<"n","o","d","e","_","m","o","d","u","l","e","s">>)
    \/ Includes(path, <<".","s","p","e","c",".">>)
    \/ Includes(path, <<".","t","e","s","t",".">>)

\* the finished part of the project without the files of an excluded path
WithoutExcluded ==
    SelectSeq(SubSeq(sourceFiles, 1, fileIndex), LAMBDA f : ~IsExcludedPath(f.filePath))

\* C16: no controller, service or type of the result has an excluded path,
\* and the routes are those of the project without the excluded files
C16_ExcludedFiles ==
    /\ \A k \in 1..Len(exControllers) : ~IsExcludedPath(exControllers[k].filePath)
    /\ \A k \in 1..Len(exServices) : ~IsExcludedPath(exServices[k].filePath)
    /\ \A k \in 1..Len(exTypes) : ~IsExcludedPath(exTypes[k].filePath)
    /\ exRoutes = DescribedRoutes(WithoutExcluded)

\* a test file that declares a controller and a dependency's file that
\* declares services and types have been passed and the result is empty
C16_Witness ==
    /\ fileIndex = 2
    /\ sourceFiles = <<F_test, F_vendor>>
    /\ extractControllers(F_test) # <<>>
    /\ extractServices(F_vendor) # <<>>
    /\ extractTypes(F_vendor) # <<>>
    /\ exRoutes = <<>> /\ exControllers = <<>> /\ exServices = <<>> /\ exTypes = <<>>

(***************************************************************************)
(* The analyze command: FrameworkDetector, UniversalAnalyzer.analyze() and *)
(* the command's action.                                                   *)
(*   project: [packageJson, expressFiles, nestFiles, tsconfigOk]           *)
(*   packageJson: [state, hasDependencies, dependencies]; state is         *)
(*   "missing", "malformed" or "parsed"                                    *)
(***************************************************************************)
Pkg(st, has, deps) == [state |-> st, hasDependencies |-> has, dependencies |-> deps]

\* part_000 lines 24-52: the indicators in the order they are pushed
Indicators(p) ==
    LET deps == IF p.packageJson.state = "parsed" /\ p.packageJson.hasDependencies
                THEN p.packageJson.dependencies ELSE {}
    IN  (IF "express" \in deps THEN <<"express dependency">> ELSE <<>>)
            \o (IF "@nestjs/core" \in deps THEN <<"nestjs dependency">> ELSE <<>>)
            \o (IF "fastify" \in deps THEN <<"fastify dependency">> ELSE <<>>)
            \o (IF "koa" \in deps THEN <<"koa dependency">> ELSE <<>>)
            \o (IF p.expressFiles THEN <<"express patterns">> ELSE <<>>)
            \o (IF p.nestFiles THEN <<"nestjs patterns">> ELSE <<>>)

\* part_000 lines 22-52
Confidence(indicators) ==
    LET has(x) == \E i \in 1..Len(indicators) : indicators[i] = x
        n(x, points) == IF has(x) THEN points ELSE 0
    IN  n("express dependency", 40) + n("nestjs dependency", 40)
            + n("fastify dependency", 40) + n("koa dependency", 40)
            + n("express patterns", 20) + n("nestjs patterns", 20)

\* part_000 lines 101-124
determineFramework(indicators) ==
    LET has(x) == \E i \in 1..Len(indicators) : indicators[i] = x
    IN  IF has("nestjs dependency") \/ has("nestjs patterns") THEN "nestjs"
        ELSE IF has("express dependency") \/ has("express patterns") THEN "express"
        ELSE IF has("fastify dependency") THEN "fastify"
        ELSE IF has("koa dependency") THEN "koa"
        ELSE "unknown"

\* part_000 lines 19-61, for a package.json that is missing or can be parsed
detectFramework(p) ==
    [framework |-> determineFramework(Indicators(p)),
     confidence |-> IF Confidence(Indicators(p)) < 100 THEN Confidence(Indicators(p)) ELSE 100,
     indicators |-> Indicators(p)]

PackageJsons ==
    {Pkg("missing", FALSE, {}), Pkg("malformed", FALSE, {}), Pkg("parsed", FALSE, {}),
     Pkg("parsed", TRUE, {"express"}), Pkg("parsed", TRUE, {"express", "@nestjs/core", "koa"}),
     Pkg("parsed", TRUE, {"fastify", "koa"}), Pkg("parsed", TRUE, {"koa", "lodash"})}

Projects ==
    [packageJson : PackageJsons, expressFiles : BOOLEAN, nestFiles : BOOLEAN,
     tsconfigOk : BOOLEAN]

Options == [ai : BOOLEAN, saveToDb : BOOLEAN]

Configs ==
    {[saveRawAnalysis |-> FALSE, databaseEnabled |-> FALSE, saveAIDocs |-> FALSE],
     [saveRawAnalysis |-> TRUE, databaseEnabled |-> FALSE, saveAIDocs |-> TRUE],
     [saveRawAnalysis |-> TRUE, databaseEnabled |-> TRUE, saveAIDocs |-> FALSE]}

AnalyzedFileLists == {<<F_spec, F_routerController>>, <<F_types, F_orders>>}

\* a block `new MongoDBAdapter; connect; save; disconnect` inside try/catch:
\* the calls that returned when the block ends as the outcome says
MongoOutcomes == {"ok", "connect raises", "save raises", "disconnect raises"}
MongoCalls(outcome, save) ==
    CASE outcome = "connect raises" -> <<>>
      [] outcome = "save raises" -> <<"connect">>
      [] outcome = "disconnect raises" -> <<"connect", save>>
      [] outcome = "ok" -> <<"connect", save, "disconnect">>

\* express-extractor.ts lines 254-264, 515-537: the block when it is enabled
MongoBlock(save) ==
    IF options.saveToDb \/ config.databaseEnabled
    THEN \E outcome \in MongoOutcomes :
            /\ dbOps' = dbOps \o MongoCalls(outcome, save)
            /\ warnings' = IF outcome = "ok" THEN warnings ELSE warnings + 1
    ELSE UNCHANGED <<dbOps, warnings>>

AnalyzeInit ==
    /\ project \in Projects
    /\ options \in Options
    /\ config \in Configs
    /\ sourceFiles \in AnalyzedFileLists
    /\ cmdPc = "detect"
    /\ fileIndex = 0
    /\ exRoutes = <<>> /\ exControllers = <<>> /\ exServices = <<>> /\ exTypes = <<>>
    /\ written = <<>> /\ dbOps = <<>> /\ warnings = 0 /\ exitCode = <<>>
    /\ frameworkInfo = <<>> /\ result = <<>> /\ aiStarted = FALSE /\ failure = "none"

\* lines 270-273: the catch of the command's action
CommandFails(step) ==
    /\ failure' = step
    /\ exitCode' = <<1>>
    /\ cmdPc' = "exited"

\* universal-analyzer.ts lines 16-17; JSON.parse of line 68 raises on a
\* package.json that is no JSON
DetectFramework ==
    /\ cmdPc = "detect"
    /\ IF project.packageJson.state = "malformed"
       THEN CommandFails("detect") /\ UNCHANGED frameworkInfo
       ELSE /\ frameworkInfo' = <<detectFramework(project)>>
            /\ cmdPc' = "construct"
            /\ UNCHANGED <<failure, exitCode>>
    /\ UNCHANGED <<options, config, written, dbOps, warnings, project, result, aiStarted,
                   extractVars>>

\* the mutant goes on to the extraction without a build configuration
ConstructExtractorAnyway ==
    /\ cmdPc = "construct"
    /\ cmdPc' = "extract"
    /\ UNCHANGED <<failure, exitCode>>
    /\ UNCHANGED <<options, config, written, dbOps, warnings, project, frameworkInfo, result,
                   aiStarted, extractVars>>

\* universal-analyzer.ts line 24: new Project raises without a tsconfig.json
\* it can read
ConstructExtractor ==
    /\ cmdPc = "construct"
    /\ IF ~project.tsconfigOk
       THEN CommandFails("construct")
       ELSE cmdPc' = "extract" /\ UNCHANGED <<failure, exitCode>>
    /\ UNCHANGED <<options, config, written, dbOps, warnings, project, frameworkInfo, result,
                   aiStarted, extractVars>>

\* the mutant runs the extractors only for a project detected as nestjs
AnalyzeExtractGated ==
    /\ cmdPc = "extract"
    /\ IF frameworkInfo[1].framework = "nestjs"
       THEN SkipFile \/ ExtractFile
       ELSE SkipFile \/ (/\ fileIndex < Len(sourceFiles)
                         /\ fileIndex' = fileIndex + 1
                         /\ UNCHANGED <<sourceFiles, exRoutes, exControllers, exServices,
                                        exTypes>>)
    /\ UNCHANGED <<cmdVars, analyzeVars>>

\* universal-analyzer.ts lines 25-26: the loop of extractAll
AnalyzeExtract ==
    /\ cmdPc = "extract"
    /\ SkipFile \/ ExtractFile
    /\ UNCHANGED <<cmdVars, analyzeVars>>

\* universal-analyzer.ts lines 34-46; analysisTime, a clock reading, is left out
AnalyzeReturn ==
    /\ cmdPc = "extract"
    /\ fileIndex = Len(sourceFiles)
    /\ result' = <<[framework |-> frameworkInfo[1].framework,
                    routes |-> exRoutes,
                    controllers |-> exControllers,
                    services |-> exServices,
                    types |-> exTypes,
                    metadata |-> [totalRoutes |-> Len(exRoutes),
                                  totalControllers |-> Len(exControllers),
                                  totalServices |-> Len(exServices)]]>>
    /\ cmdPc' = "write"
    /\ UNCHANGED <<options, config, written, dbOps, warnings, exitCode, project,
                   frameworkInfo, aiStarted, failure, extractVars>>

\* express-extractor.ts lines 247-251; writeFileSync may raise
WriteAnalysis ==
    /\ cmdPc = "write"
    /\ IF config.saveRawAnalysis
       THEN \E ok \in BOOLEAN :
               IF ok
               THEN /\ written' = Append(written, "analysis")
                    /\ cmdPc' = "mongo"
                    /\ UNCHANGED <<failure, exitCode>>
               ELSE CommandFails("write") /\ UNCHANGED written
       ELSE cmdPc' = "mongo" /\ UNCHANGED <<written, failure, exitCode>>
    /\ UNCHANGED <<options, config, dbOps, warnings, project, frameworkInfo, result,
                   aiStarted, extractVars>>

\* the mutant lets an error of the MongoDB block reach the command's catch
SaveAnalysisToMongoFatal ==
    /\ cmdPc = "mongo"
    /\ IF options.saveToDb \/ config.databaseEnabled
       THEN \E outcome \in MongoOutcomes :
               /\ dbOps' = dbOps \o MongoCalls(outcome, "saveAnalysis")
               /\ IF outcome = "ok"
                  THEN cmdPc' = "ai" /\ UNCHANGED <<failure, exitCode>>
                  ELSE CommandFails("mongo")
               /\ UNCHANGED warnings
       ELSE cmdPc' = "ai" /\ UNCHANGED <<dbOps, warnings, failure, exitCode>>
    /\ UNCHANGED <<options, config, written, project, frameworkInfo, result, aiStarted,
                   extractVars>>

\* express-extractor.ts lines 253-264
SaveAnalysisToMongo ==
    /\ cmdPc = "mongo"
    /\ MongoBlock("saveAnalysis")
    /\ cmdPc' = "ai"
    /\ UNCHANGED <<options, config, written, exitCode, analyzeVars, extractVars>>

\* express-extractor.ts lines 266-269 and generateAIDocumentation, lines
\* 463-542: without an API key it exits, an error of the AI service or of a
\* write is thrown on to the command's catch
GenerateAI ==
    /\ cmdPc = "ai"
    /\ IF options.ai
       THEN /\ aiStarted' = TRUE
            /\ \E outcome \in {"ok", "no api key", "raises"} :
                  CASE outcome = "no api key" ->
                          /\ exitCode' = <<1>> /\ cmdPc' = "exited"
                          /\ UNCHANGED <<written, dbOps, warnings, failure>>
                    [] outcome = "raises" ->
                          CommandFails("ai") /\ UNCHANGED <<written, dbOps, warnings>>
                    [] outcome = "ok" ->
                          /\ written' = IF config.saveAIDocs
                                        THEN Append(written, "ai-docs") ELSE written
                          /\ MongoBlock("saveDocumentation")
                          /\ cmdPc' = "ended"
                          /\ UNCHANGED <<failure, exitCode>>
       ELSE /\ cmdPc' = "ended"
            /\ UNCHANGED <<aiStarted, written, dbOps, warnings, failure, exitCode>>
    /\ UNCHANGED <<options, config, project, frameworkInfo, result, extractVars>>

SpecAnalyzeInit ==
    AnalyzeInit /\ GroupIdle /\ NameIdle /\ HandlerIdle /\ PathIdle /\ ChunkIdle
        /\ ServicesIdle
SpecAnalyzeNext ==
    (\/ DetectFramework
     \/ ConstructExtractor
     \/ AnalyzeExtract
     \/ AnalyzeReturn
     \/ WriteAnalysis
     \/ SaveAnalysisToMongo
     \/ GenerateAI) /\ UNCHANGED <<groupVars, nameVars, handlerVars, pathVars, chunkVars,
                                     serviceVars>>
SpecAnalyze == SpecAnalyzeInit /\ [][SpecAnalyzeNext]_vars

\* C17: when constructing the GenericExtractor has raised, analyze() has
\* returned no result, the command has written no file, made no MongoDB
\* call and started no AI generation, and it has ended with exit code 1
C17_NoBuildConfiguration ==
    (frameworkInfo # <<>> /\ ~project.tsconfigOk /\ cmdPc \notin {"detect", "construct"}) =>
        /\ cmdPc = "exited" /\ exitCode = <<1>>
        /\ result = <<>>
        /\ written = <<>>
        /\ dbOps = <<>>
        /\ ~aiStarted

\* the command was asked to write the file, to save to MongoDB and to run the
\* AI, and has exited with code 1 because the constructor raised
C17_Witness ==
    /\ failure = "construct" /\ cmdPc = "exited" /\ exitCode = <<1>>
    /\ ~project.tsconfigOk
    /\ config.saveRawAnalysis /\ options.saveToDb /\ options.ai
    /\ result = <<>> /\ written = <<>> /\ dbOps = <<>> /\ ~aiStarted


\* what one GenericExtractor pass over a list of files yields, whatever the
\* project's package.json and marker files are
RECURSIVE PassOver(_)
PassOver(files) ==
    IF files = <<>>
    THEN [routes |-> <<>>, controllers |-> <<>>, services |-> <<>>, types |-> <<>>]
    ELSE LET f == Head(files)
             rest == PassOver(Tail(files))
         IN  IF shouldSkipFile(f) THEN rest
             ELSE [routes |-> ClassRoutes(getClasses(f)) \o extractRoutes(f) \o rest.routes,
                   controllers |-> extractControllers(f) \o rest.controllers,
                   services |-> extractServices(f) \o rest.services,
                   types |-> extractTypes(f) \o rest.types]

\* C18: the routes, controllers, services and types of a result of analyze()
\* are those of the one extraction pass over the source files, a function of
\* the source files alone, so two runs on the same files that differ in the
\* detected framework agree on them; the framework label is the detected one
C18_DetectionDoesNotGate ==
    result # <<>> =>
        /\ result[1].routes = PassOver(sourceFiles).routes
        /\ result[1].controllers = PassOver(sourceFiles).controllers
        /\ result[1].services = PassOver(sourceFiles).services
        /\ result[1].types = PassOver(sourceFiles).types
        /\ result[1].framework = determineFramework(Indicators(project))

\* a project without any indicator is labelled unknown and its result holds
\* the controller, the service and the routes of an annotated class
C18_Witness ==
    /\ result # <<>>
    /\ result[1].framework = "unknown"
    /\ frameworkInfo[1].indicators = <<>>
    /\ sourceFiles = <<F_types, F_orders>>
    /\ result[1].controllers # <<>>
    /\ result[1].services # <<>>
    /\ result[1].types # <<>>
    /\ Len(result[1].routes) >= 2

(***************************************************************************)
(* The chunked flows: the ai:chunks command with                           *)
(* generateChunkedAIDocumentation, and the generate command.               *)
(***************************************************************************)
\* lines 731-784 as a function: the chunks after the routes from position i
\* on, and whether the push of line 783 raised
RECURSIVE FallbackFrom(_, _, _, _)
FallbackFrom(m, rs, i, ch) ==
    IF i = Len(rs) THEN [threw |-> FALSE, chunks |-> ch]
    ELSE LET nm == FallbackModuleName(m, rs[i + 1], i)
         IN  IF PushThrows(ch, nm) THEN [threw |-> TRUE, chunks |-> ch]
             ELSE FallbackFrom(m, rs, i + 1, ChunkPush(ch, nm, i + 1))

\* lines 689-788 as a function of its three parameters; route objects are
\* named by numbers as in the state machine above
groupRoutesByController(rs, svcs, ctrls) ==
    LET byController == CollectControllerRoutes(<<>>, ctrls)
    IN  IF FallbackOpens(byController)
        THEN FallbackFrom(CollectServiceModules(<<>>, svcs), rs, 0, <<>>)
        ELSE [threw |-> FALSE, chunks |-> byController]

\* the route objects of an analysis result: those of its routes list, numbers
\* 1..Len(routes), and then those its controllers own
OwnedRoutes(data) ==
    Concat([k \in 1..Len(data.controllers) |-> data.controllers[k].routes])
RouteObject(data, n) ==
    IF n <= Len(data.routes) THEN data.routes[n]
    ELSE OwnedRoutes(data)[n - Len(data.routes)]
OwnedBefore(data, k) ==
    Len(Concat([j \in 1..(k - 1) |-> data.controllers[j].routes]))
ControllerObjects(data) ==
    [k \in 1..Len(data.controllers) |->
        [name |-> data.controllers[k].name,
         routes |-> [j \in 1..Len(data.controllers[k].routes) |->
                        Len(data.routes) + OwnedBefore(data, k) + j]]]

\* the returned record with the route objects themselves
WithRoutes(data, ch) ==
    [k \in 1..Len(ch) |->
        [name |-> ch[k].name,
         routes |-> [j \in 1..Len(ch[k].routes) |-> RouteObject(data, ch[k].routes[j])]]]

\* lines 669-677 and 679-687
IsRelated(moduleNm, itemName) ==
    \/ Includes(ToLowerCase(itemName), ToLowerCase(moduleNm))
    \/ (moduleNm = STR_app /\ Includes(ToLowerCase(itemName), STR_app))
getRelatedServices(moduleNm, svcs) ==
    SelectSeq(svcs, LAMBDA service : IsRelated(moduleNm, service.name))
getRelatedTypes(moduleNm, tps) ==
    SelectSeq(tps, LAMBDA type : IsRelated(moduleNm, type.name))

\* an analysis result of a project with these source files and no framework
\* indicator, as analyze() returns it and as the analysis file holds it
AnalysisOf(files) ==
    LET pass == PassOver(files)
    IN  [framework |-> "unknown",
         routes |-> pass.routes,
         controllers |-> pass.controllers,
         services |-> pass.services,
         types |-> pass.types,
         metadata |-> [totalRoutes |-> Len(pass.routes),
                       totalControllers |-> Len(pass.controllers),
                       totalServices |-> Len(pass.services)]]

\* lines 904-918: aiInput
AiInput(data) ==
    [data EXCEPT !.metadata = [totalRoutes |-> Len(data.routes),
                               totalControllers |-> Len(data.controllers),
                               totalServices |-> Len(data.services),
                               totalTypes |-> Len(data.types),
                               source |-> "project-analysis"]]

\* lines 604-616: chunkData
ChunkData(data, moduleNm, moduleRoutes) ==
    LET relatedServices == getRelatedServices(moduleNm, data.services)
        relatedTypes == getRelatedTypes(moduleNm, data.types)
    IN  [framework |-> data.framework,
         routes |-> moduleRoutes,
         controllers |-> data.controllers,
         services |-> relatedServices,
         types |-> relatedTypes,
         metadata |-> [totalRoutes |-> Len(moduleRoutes),
                       totalControllers |-> data.metadata.totalControllers,
                       totalServices |-> Len(relatedServices),
                       totalTypes |-> Len(relatedTypes),
                       moduleName |-> moduleNm]]

\* lines 957-961: moduleData
ModuleData(aiInput, moduleNm, moduleRoutes) ==
    [framework |-> aiInput.framework,
     routes |-> moduleRoutes,
     controllers |-> aiInput.controllers,
     services |-> aiInput.services,
     types |-> aiInput.types,
     metadata |-> [totalRoutes |-> aiInput.metadata.totalRoutes,
                   totalControllers |-> aiInput.metadata.totalControllers,
                   totalServices |-> aiInput.metadata.totalServices,
                   totalTypes |-> aiInput.metadata.totalTypes,
                   source |-> aiInput.metadata.source,
                   moduleName |-> moduleNm]]

ChunkedFileLists ==
    {<<F_app>>, <<F_types, F_orders>>, <<F_service, F_router>>,
     <<F_routerController, F_types>>, <<F_spec>>, <<F_admin, F_orders>>}

ChunkedOptions == [ai : {FALSE}, saveToDb : BOOLEAN]

ChunkedInit ==
    /\ flow \in {"ai:chunks", "generate"}
    /\ sourceFiles \in ChunkedFileLists
    /\ options \in ChunkedOptions
    /\ config \in Configs
    /\ cmdPc = "start"
    /\ written = <<>> /\ dbOps = <<>> /\ warnings = 0 /\ exitCode = <<>>
    /\ analysisData = <<>> /\ moduleChunks = <<>> /\ moduleIndex = 0 /\ emitted = <<>>
    /\ fileIndex = 0
    /\ exRoutes = <<>> /\ exControllers = <<>> /\ exServices = <<>> /\ exTypes = <<>>

\* process.exit(1), called directly or by the catch of the command's action
ExitOne == exitCode' = <<1>> /\ cmdPc' = "exited"

FileOf(moduleNm, fileName) == [module |-> moduleNm, file |-> fileName]

\* lines 320-329: the ai:chunks command reads the analysis file
ReadAnalysisFile ==
    /\ flow = "ai:chunks" /\ cmdPc = "start"
    /\ \E outcome \in {"ok", "not found", "no json"} :
          IF outcome = "ok"
          THEN /\ analysisData' = <<AnalysisOf(sourceFiles)>>
               /\ cmdPc' = "group"
               /\ UNCHANGED exitCode
          ELSE ExitOne /\ UNCHANGED analysisData
    /\ UNCHANGED <<options, config, written, dbOps, warnings, flow, moduleChunks,
                   moduleIndex, emitted, extractVars>>

\* lines 549-587: the API key, the AI service, the output directory and the
\* grouping; an error is thrown on to the catch of line 330
GroupForChunks ==
    /\ flow = "ai:chunks" /\ cmdPc = "group"
    /\ \E apiKey \in BOOLEAN :
          LET data == analysisData[1]
              grouped == groupRoutesByController(data.routes, data.services,
                                                 ControllerObjects(data))
          IN  IF apiKey /\ ~grouped.threw
              THEN /\ moduleChunks' = WithRoutes(data, grouped.chunks)
                   /\ cmdPc' = "modules"
                   /\ UNCHANGED exitCode
              ELSE ExitOne /\ UNCHANGED moduleChunks
    /\ UNCHANGED <<options, config, written, dbOps, warnings, flow, analysisData,
                   moduleIndex, emitted, extractVars>>

\* the mutant catches the error of a module and goes on with the next one
DocumentChunkCarriesOn ==
    /\ flow = "ai:chunks" /\ cmdPc = "modules"
    /\ moduleIndex < Len(moduleChunks)
    /\ LET moduleNm == moduleChunks[moduleIndex + 1].name
           chunkData == ChunkData(analysisData[1], moduleNm,
                                  moduleChunks[moduleIndex + 1].routes)
       IN  /\ emitted' = Append(emitted, [moduleName |-> moduleNm, data |-> chunkData])
           /\ \E outcome \in {"ok", "json write raises", "ai raises", "md write raises"} :
                 CASE outcome = "json write raises" ->
                         ExitOne /\ UNCHANGED <<written, dbOps, warnings, moduleIndex>>
                   [] outcome \in {"ai raises", "md write raises"} ->
                         /\ written' = Append(written, FileOf(moduleNm, "analysis.json"))
                         /\ moduleIndex' = moduleIndex + 1
                         /\ UNCHANGED <<dbOps, warnings, cmdPc, exitCode>>
                   [] outcome = "ok" ->
                         /\ written' = written \o <<FileOf(moduleNm, "analysis.json"),
                                                   FileOf(moduleNm, "md")>>
                         /\ MongoBlock("saveDocumentation")
                         /\ moduleIndex' = moduleIndex + 1
                         /\ UNCHANGED <<cmdPc, exitCode>>
    /\ UNCHANGED <<options, config, flow, analysisData, moduleChunks, extractVars>>

\* lines 594-656: one iteration of the loop of generateChunkedAIDocumentation
DocumentChunk ==
    /\ flow = "ai:chunks" /\ cmdPc = "modules"
    /\ moduleIndex < Len(moduleChunks)
    /\ LET moduleNm == moduleChunks[moduleIndex + 1].name
           chunkData == ChunkData(analysisData[1], moduleNm,
                                  moduleChunks[moduleIndex + 1].routes)
       IN  /\ emitted' = Append(emitted, [moduleName |-> moduleNm, data |-> chunkData])
           /\ \E outcome \in {"ok", "json write raises", "ai raises", "md write raises"} :
                 CASE outcome = "json write raises" ->
                         ExitOne /\ UNCHANGED <<written, dbOps, warnings, moduleIndex>>
                   [] outcome \in {"ai raises", "md write raises"} ->
                         /\ written' = Append(written, FileOf(moduleNm, "analysis.json"))
                         /\ ExitOne
                         /\ UNCHANGED <<dbOps, warnings, moduleIndex>>
                   [] outcome = "ok" ->
                         /\ written' = written \o <<FileOf(moduleNm, "analysis.json"),
                                                   FileOf(moduleNm, "md")>>
                         /\ MongoBlock("saveDocumentation")
                         /\ moduleIndex' = moduleIndex + 1
                         /\ UNCHANGED <<cmdPc, exitCode>>
    /\ UNCHANGED <<options, config, flow, analysisData, moduleChunks, extractVars>>

\* lines 890-934: the generate command analyses the project and writes
\* project-analysis.json
AnalyzeForGenerate ==
    /\ flow = "generate" /\ cmdPc = "start"
    /\ \E outcome \in {"ok", "analyze raises", "write raises"} :
          CASE outcome = "analyze raises" ->
                  ExitOne /\ UNCHANGED <<analysisData, written>>
            [] outcome = "write raises" ->
                  /\ analysisData' = <<AnalysisOf(sourceFiles)>>
                  /\ ExitOne
                  /\ UNCHANGED written
            [] outcome = "ok" ->
                  /\ analysisData' = <<AnalysisOf(sourceFiles)>>
                  /\ written' = Append(written, FileOf(<<>>, "project-analysis.json"))
                  /\ cmdPc' = "group"
                  /\ UNCHANGED exitCode
    /\ UNCHANGED <<options, config, dbOps, warnings, flow, moduleChunks, moduleIndex,
                   emitted, extractVars>>

\* lines 936-937: the grouping with the routes alone, services and
\* controllers left at their default []
GroupForGenerate ==
    /\ flow = "generate" /\ cmdPc = "group"
    /\ LET data == AiInput(analysisData[1])
           grouped == groupRoutesByController(data.routes, <<>>, <<>>)
       IN  IF ~grouped.threw
           THEN /\ moduleChunks' = WithRoutes(data, grouped.chunks)
                /\ cmdPc' = "modules"
                /\ UNCHANGED exitCode
           ELSE ExitOne /\ UNCHANGED moduleChunks
    /\ UNCHANGED <<options, config, written, dbOps, warnings, flow, analysisData,
                   moduleIndex, emitted, extractVars>>

\* lines 952-1019: one iteration of the loop of the generate command
DocumentModule ==
    /\ flow = "generate" /\ cmdPc = "modules"
    /\ moduleIndex < Len(moduleChunks)
    /\ LET moduleNm == moduleChunks[moduleIndex + 1].name
           moduleData == ModuleData(AiInput(analysisData[1]), moduleNm,
                                    moduleChunks[moduleIndex + 1].routes)
       IN  /\ emitted' = Append(emitted, [moduleName |-> moduleNm, data |-> moduleData])
           /\ \E outcome \in {"ok", "ai raises", "md write raises", "json write raises"} :
                 CASE outcome \in {"ai raises", "md write raises"} ->
                         ExitOne /\ UNCHANGED <<written, dbOps, warnings, moduleIndex>>
                   [] outcome = "json write raises" ->
                         /\ written' = Append(written, FileOf(moduleNm, "md"))
                         /\ ExitOne
                         /\ UNCHANGED <<dbOps, warnings, moduleIndex>>
                   [] outcome = "ok" ->
                         /\ written' = written \o <<FileOf(moduleNm, "md"),
                                                   FileOf(moduleNm, "analysis.json")>>
                         /\ MongoBlock("saveDocumentation")
                         /\ moduleIndex' = moduleIndex + 1
                         /\ UNCHANGED <<cmdPc, exitCode>>
    /\ UNCHANGED <<options, config, flow, analysisData, moduleChunks, extractVars>>

\* lines 658-662 and 1021-1022: the loop is over
ChunkedReturn ==
    /\ cmdPc = "modules"
    /\ moduleIndex = Len(moduleChunks)
    /\ cmdPc' = "ended"
    /\ UNCHANGED <<options, config, written, dbOps, warnings, exitCode, chunkVars,
                   extractVars>>

SpecChunksInit ==
    ChunkedInit /\ GroupIdle /\ NameIdle /\ HandlerIdle /\ PathIdle /\ AnalyzeIdle
        /\ ServicesIdle
SpecChunksNext ==
    (\/ ReadAnalysisFile
     \/ GroupForChunks
     \/ DocumentChunk
     \/ AnalyzeForGenerate
     \/ GroupForGenerate
     \/ DocumentModule
     \/ ChunkedReturn) /\ UNCHANGED <<groupVars, nameVars, handlerVars, pathVars, analyzeVars,
                                        serviceVars>>
SpecChunks == SpecChunksInit /\ [][SpecChunksNext]_vars

\* the module-to-routes mapping the grouper gives for the routes, services
\* and controllers of the analysis result
DescribedChunks ==
    LET data == analysisData[1]
    IN  WithRoutes(data, groupRoutesByController(data.routes, data.services,
                                                 ControllerObjects(data)).chunks)

\* C19 as stated: once a chunked flow has grouped, its module-to-routes
\* mapping is the one the grouper gives for the routes, services and
\* controllers of the analysis result, in the ai:chunks flow and in the
\* generate flow alike
C19_SameGrouping ==
    cmdPc \in {"modules", "ended"} => moduleChunks = DescribedChunks


\* lower-cased name contains the lower-cased module name
NameContains(moduleNm, itemName) == Includes(ToLowerCase(itemName), ToLowerCase(moduleNm))

\* C20 as stated: every sub-result a chunked flow has built holds exactly
\* the routes grouped under its module, and exactly the services and the
\* types of the analysis result whose lower-cased name contains the
\* lower-cased module name
C20_RestrictedView ==
    \A k \in 1..Len(emitted) :
        LET data == analysisData[1]
            moduleNm == emitted[k].moduleName
        IN  /\ moduleNm = moduleChunks[k].name
            /\ emitted[k].data.routes = moduleChunks[k].routes
            /\ emitted[k].data.services =
                   SelectSeq(data.services, LAMBDA s : NameContains(moduleNm, s.name))
            /\ emitted[k].data.types =
                   SelectSeq(data.types, LAMBDA t : NameContains(moduleNm, t.name))


(***************************************************************************)
(* C21: the text scan of one file.                                         *)
(***************************************************************************)
\* the routes a step appended after the routes of the file's controllers
ScannedBy(before, after, file) ==
    SubSeq(after, Len(before) + Len(ClassRoutes(getClasses(file))) + 1, Len(after))

\* the matches of the text, pattern by pattern, each with its pattern's number
MatchesInOrder(text) ==
    Concat([k \in 1..Len(routePatterns) |->
               LET found == ExecAll(text, routePatterns[k], 0)
               IN  [m \in 1..Len(found) |-> [pattern |-> k, match |-> found[m]]]])

\* the matches of one pattern are real matches, left to right without
\* overlap, and none is left out: a position where the pattern matches starts
\* a listed match or lies inside one that starts before it
ScansWholeText(text, k) ==
    LET found == ExecAll(text, routePatterns[k], 0)
    IN  /\ \A m \in 1..Len(found) :
               /\ MatchAt(text, found[m].index, routePatterns[k]) = <<found[m]>>
               /\ m > 1 => found[m - 1].last < found[m].index
        /\ \A p \in 1..Len(text) :
               MatchAt(text, p, routePatterns[k]) # <<>> =>
                   \E m \in 1..Len(found) : found[m].index <= p /\ p <= found[m].last

\* C21: a step of extractAll that analyses a file appends, after the
\* controllers' routes, one route per match of each pattern of the list, the
\* patterns in list order and the matches of a pattern in text order, every
\* pattern scanning the whole text of this file from its start; their number
\* is the sum of the match counts, whatever was analysed before
C21_TextScan ==
    [][(ExtractStep /\ ~shouldSkipFile(StepFile)) =>
          LET text == getFullText(StepFile)
              scanned == ScannedBy(exRoutes, exRoutes', StepFile)
              expected == MatchesInOrder(text)
          IN  /\ Len(scanned) = MatchCount(text, Len(routePatterns))
              /\ Len(scanned) = Len(expected)
              /\ \A k \in 1..Len(routePatterns) : ScansWholeText(text, k)
              /\ \A j \in 1..Len(expected) :
                    /\ scanned[j].method = ToUpperCase(expected[j].match.g1)
                    /\ scanned[j].path = (IF expected[j].match.g2 = <<>> THEN STR_slash
                                          ELSE expected[j].match.g2)
                    /\ scanned[j].framework =
                           detectFrameworkFromPattern(routePatterns[expected[j].pattern])
                    /\ j > 1 =>
                          \/ expected[j - 1].pattern < expected[j].pattern
                          \/ /\ expected[j - 1].pattern = expected[j].pattern
                             /\ expected[j - 1].match.index < expected[j].match.index]_vars

\* after a file with two matches of the annotation pattern, a file has been
\* scanned whose router call stands behind its annotation in the text: the
\* call's route precedes the annotation's route and follows it once more
C21_Witness ==
    /\ fileIndex = 2
    /\ sourceFiles = <<F_orders, F_router>>
    /\ Len(exRoutes) = 6
    /\ Len(ExecAll(getFullText(F_orders), AnnotationPattern, 0)) = 2
    /\ LET expected == MatchesInOrder(getFullText(F_router))
       IN  /\ Len(expected) = 3
           /\ expected[1].pattern = 2 /\ expected[2].pattern = 3 /\ expected[3].pattern = 5
           /\ expected[1].match.index > expected[2].match.index
    /\ exRoutes[4].framework = "koa" /\ exRoutes[5].framework = "nestjs"
    /\ exRoutes[6] = exRoutes[4]


(***************************************************************************)
(* C22: the framework tags of the declaration scan.                        *)
(***************************************************************************)
\* the class carries a class-level annotation named Controller or Injectable
IsAnnotatedClass(class) ==
    \E d \in 1..Len(class.decorators) :
        class.decorators[d].name \in {<<"C","o","n","t","r","o","l","l","e","r">>,
                                      <<"I","n","j","e","c","t","a","b","l","e">>}

\* the analysed classes behind the services of the result, in order
DescribedServices == SelectSeq(ClassesOf(Analysed), LAMBDA c : PassesServiceTest(c.class))

TagOf(class) == IF IsAnnotatedClass(class) THEN "nestjs" ELSE "express"

\* C22: a controller or service of the result is tagged nestjs when its class
\* carries a class-level annotation named Controller or Injectable and
\* express otherwise, and every route a controller owns is tagged nestjs
C22_FrameworkTags ==
    /\ Len(exControllers) = Len(DescribedControllers)
    /\ Len(exServices) = Len(DescribedServices)
    /\ \A k \in 1..Len(exControllers) :
          /\ exControllers[k].name = DescribedControllers[k].class.name
          /\ exControllers[k].framework = TagOf(DescribedControllers[k].class)
          /\ \A j \in 1..Len(exControllers[k].routes) :
                exControllers[k].routes[j].framework = "nestjs"
    /\ \A k \in 1..Len(exServices) :
          /\ exServices[k].name = DescribedServices[k].class.name
          /\ exServices[k].framework = TagOf(DescribedServices[k].class)

\* a controller by its name alone is tagged express and owns a route tagged
\* nestjs; of two services one is tagged nestjs by its Injectable annotation
\* and one express
C22_Witness ==
    /\ fileIndex = 2
    /\ sourceFiles = <<F_routerController, F_service>>
    /\ Len(exControllers) = 1
    /\ exControllers[1].name = N_UsersController
    /\ exControllers[1].framework = "express"
    /\ Len(exControllers[1].routes) = 1
    /\ exControllers[1].routes[1].framework = "nestjs"
    /\ Len(exServices) = 2
    /\ exServices[1].framework = "nestjs"
    /\ exServices[2].framework = "express"


(***************************************************************************)
(* AIService.generateDocumentation, lines 20-86 of ai-service.ts, and      *)
(* generateFallbackDocumentation, lines 150-200.                           *)
(*   a response of generateText: [kind, text, thrown]; kind "text" with    *)
(*   result.text (Undefined when the result has none), or kind "raised"    *)
(*   with the thrown value [isError, message]                              *)
(***************************************************************************)
TextResponse(t) == [kind |-> "text", text |-> t, thrown |-> [isError |-> FALSE, message |-> ""]]
Raised(isError, message) ==
    [kind |-> "raised", text |-> <<>>, thrown |-> [isError |-> isError, message |-> message]]

\* String.prototype.trim
Trim(s) ==
    LET inked == {i \in 1..Len(s) : s[i] \notin WhiteSpace}
    IN  IF inked = {} THEN <<>>
        ELSE SubSeq(s, SetMin(inked), CHOOSE i \in inked : \A j \in inked : j <= i)

\* line 45: !result.text || result.text.trim().length === 0
IsEmptyResponse(t) == t = Undefined \/ t = <<>> \/ Len(Trim(t)) = 0

\* lines 156-162
FallbackFramework(p) ==
    LET promptLower == ToLowerCase(p)
    IN  IF Includes(promptLower, <<"n","e","s","t","j","s">>) THEN "NestJS"
        ELSE IF Includes(promptLower, <<"e","x","p","r","e","s","s">>) THEN "Express"
        ELSE IF Includes(promptLower, <<"f","a","s","t","i","f","y">>) THEN "Fastify"
        ELSE IF Includes(promptLower, <<"k","o","a">>) THEN "Koa"
        ELSE "Unknown"

\* the last position of the run of colons and white space that starts at i
SeparatorRunEnd(s, i) ==
    LET stops == {j \in i..Len(s) : s[j] \notin WhiteSpace \cup {":"}}
    IN  IF stops = {} THEN Len(s) ELSE SetMin(stops) - 1

\* lines 165-168: the capture of the match of module, separators and a word,
\* letter case ignored; Module without a match
FallbackModuleNameOf(p) ==
    LET wordAt(i) == SeparatorRunEnd(p, i + 6) + 1
        hits == {i \in 1..Len(p) :
                    /\ StartsWithAt(ToLowerCase(p), i, <<"m","o","d","u","l","e">>)
                    /\ wordAt(i) > i + 6
                    /\ wordAt(i) <= Len(p)
                    /\ IsWordChar(p[wordAt(i)])}
    IN  IF hits = {} THEN <<"M","o","d","u","l","e">>
        ELSE SubSeq(p, wordAt(SetMin(hits)), WordRunEnd(p, wordAt(SetMin(hits))))

\* lines 150-186: the fallback text, by the two values it is filled with
generateFallbackDocumentation(p) ==
    [moduleName |-> FallbackModuleNameOf(p), framework |-> FallbackFramework(p)]

MaxRetries == 3

Prompts == {<<"D","o","c","u","m","e","n","t"," ","t","h","e"," ","E","x","p","r","e","s","s"," ","A","P","I","."," ","m","o","d","u","l","e",":"," ","u","s","e","r","s">>, <<"D","e","s","c","r","i","b","e"," ","t","h","i","s"," ","K","o","a"," ","m","o","d","u","l","e","s"," ","l","i","s","t">>}

Providers == {"google", "other"}

ResponseTexts == {Undefined, <<>>, <<" ","\n">>, <<"#"," ","U","s","e","r","s">>, <<" ","o","k","\n">>}

Responses ==
    {TextResponse(t) : t \in ResponseTexts}
        \cup {Raised(TRUE, "timeout"), Raised(TRUE, "rate limit"), Raised(TRUE, ""),
              Raised(FALSE, "aborted")}

RetryInit ==
    /\ prompt \in Prompts
    /\ maxRetries \in 0..MaxRetries
    /\ provider \in Providers
    /\ attempt = 0
    /\ responses = <<>>
    /\ lastError = <<>>
    /\ genPc = "create"
    /\ genRet = <<>>

\* lines 24-27 with createModel, lines 88-113: an unknown provider raises
CreateModel ==
    /\ genPc = "create"
    /\ IF provider \in {"google", "openai", "anthropic"}
       THEN /\ attempt' = 1
            /\ genPc' = "loop"
            /\ UNCHANGED genRet
       ELSE /\ genPc' = "raised"
            /\ genRet' = <<[kind |-> "error",
                            value |-> [text |-> "Unsupported AI provider", attempts |-> 0,
                                       message |-> provider]]>>
            /\ UNCHANGED attempt
    /\ UNCHANGED <<prompt, maxRetries, provider, responses, lastError>>

\* the mutant returns whatever text the model gave
AttemptReturnsAnyText ==
    /\ genPc = "loop"
    /\ attempt <= maxRetries
    /\ \E response \in Responses :
          /\ responses' = Append(responses, response)
          /\ IF response.kind = "text"
             THEN /\ genPc' = "returned"
                  /\ genRet' = <<[kind |-> "text", value |-> response.text]>>
                  /\ UNCHANGED <<attempt, lastError>>
             ELSE /\ lastError' = <<[message |-> IF response.thrown.isError
                                                 THEN response.thrown.message
                                                 ELSE "Unknown error"]>>
                  /\ attempt' = attempt + 1
                  /\ UNCHANGED <<genPc, genRet>>
    /\ UNCHANGED <<prompt, maxRetries, provider>>

\* the mutant raises for an empty last response when an earlier attempt raised
AttemptRaisesAfterError ==
    /\ genPc = "loop"
    /\ attempt <= maxRetries
    /\ \E response \in Responses :
          /\ responses' = Append(responses, response)
          /\ IF response.kind = "text"
             THEN IF IsEmptyResponse(response.text)
                  THEN IF attempt < maxRetries \/ lastError # <<>>
                       THEN /\ attempt' = attempt + 1
                            /\ UNCHANGED <<genPc, genRet, lastError>>
                       ELSE /\ genPc' = "returned"
                            /\ genRet' = <<[kind |-> "fallback",
                                            value |-> generateFallbackDocumentation(prompt)]>>
                            /\ UNCHANGED <<attempt, lastError>>
                  ELSE /\ genPc' = "returned"
                       /\ genRet' = <<[kind |-> "text", value |-> response.text]>>
                       /\ UNCHANGED <<attempt, lastError>>
             ELSE /\ lastError' = <<[message |-> IF response.thrown.isError
                                                 THEN response.thrown.message
                                                 ELSE "Unknown error"]>>
                  /\ attempt' = attempt + 1
                  /\ UNCHANGED <<genPc, genRet>>
    /\ UNCHANGED <<prompt, maxRetries, provider>>

\* lines 27-78: one iteration of the loop, a call of generateText and what
\* follows it
Attempt ==
    /\ genPc = "loop"
    /\ attempt <= maxRetries
    /\ \E response \in Responses :
          /\ responses' = Append(responses, response)
          /\ IF response.kind = "text"
             THEN IF IsEmptyResponse(response.text)
                  THEN IF attempt < maxRetries
                       THEN /\ attempt' = attempt + 1
                            /\ UNCHANGED <<genPc, genRet, lastError>>
                       ELSE /\ genPc' = "returned"
                            /\ genRet' = <<[kind |-> "fallback",
                                            value |-> generateFallbackDocumentation(prompt)]>>
                            /\ UNCHANGED <<attempt, lastError>>
                  ELSE /\ genPc' = "returned"
                       /\ genRet' = <<[kind |-> "text", value |-> response.text]>>
                       /\ UNCHANGED <<attempt, lastError>>
             ELSE /\ lastError' = <<[message |-> IF response.thrown.isError
                                                 THEN response.thrown.message
                                                 ELSE "Unknown error"]>>
                  /\ attempt' = attempt + 1
                  /\ UNCHANGED <<genPc, genRet>>
    /\ UNCHANGED <<prompt, maxRetries, provider>>

\* lines 81-85: the loop is over
GiveUp ==
    /\ genPc = "loop"
    /\ attempt > maxRetries
    /\ genPc' = "raised"
    /\ genRet' = <<[kind |-> "error",
                    value |-> [text |-> "AI analysis failed after", attempts |-> maxRetries,
                               message |-> IF lastError = <<>> \/ lastError[1].message = ""
                                           THEN "Unknown error"
                                           ELSE lastError[1].message]]>>
    /\ UNCHANGED <<prompt, maxRetries, provider, attempt, responses, lastError>>

SpecRetryInit ==
    /\ RetryInit /\ AdapterIdle
    /\ GroupIdle /\ NameIdle /\ HandlerIdle /\ PathIdle /\ ExtractIdle
    /\ CmdIdle /\ AnalyzeIdle /\ ChunkIdle
SpecRetryNext ==
    (CreateModel \/ Attempt \/ GiveUp)
        /\ UNCHANGED <<groupVars, nameVars, handlerVars, pathVars, extractVars, cmdVars,
                       analyzeVars, chunkVars, adapterVars>>
SpecRetry == SpecRetryInit /\ [][SpecRetryNext]_vars

\* an attempt that gave no text, empty text or white space only
GaveNoText(response) ==
    /\ response.kind = "text"
    /\ \/ response.text = Undefined
       \/ \A i \in 1..Len(response.text) : response.text[i] \in {" ", "\n", "\t"}
Failed(response) == response.kind = "raised" \/ GaveNoText(response)

\* C23: the model is called at most maxRetries times; every call but the
\* last one made raised or gave empty or white-space text; as soon as a call
\* gives other text the call has returned that text, and no call is made
\* after the call has ended
C23_RetryLoop ==
    /\ Len(responses) <= maxRetries
    /\ \A k \in 1..(Len(responses) - 1) : Failed(responses[k])
    /\ (responses # <<>> /\ ~Failed(responses[Len(responses)])) =>
          /\ genPc = "returned"
          /\ genRet[1].kind = "text"
          /\ genRet[1].value = responses[Len(responses)].text
    /\ (genRet # <<>> /\ genRet[1].kind = "text") =>
          /\ ~Failed(responses[Len(responses)])
          /\ ~ENABLED Attempt

\* the second of three allowed attempts gave text with white space around it,
\* after a first that raised: the text is returned as it is and no third
\* call was made
C23_Witness ==
    /\ maxRetries = 3
    /\ Len(responses) = 2
    /\ responses[1].kind = "raised"
    /\ responses[2] = TextResponse(<<" ","o","k","\n">>)
    /\ genPc = "returned"
    /\ genRet = <<[kind |-> "text", value |-> <<" ","o","k","\n">>]>>


\* all maxRetries attempts were made and failed, and the call has ended
AllAttemptsFailed ==
    /\ genPc \in {"returned", "raised"}
    /\ maxRetries >= 1
    /\ Len(responses) = maxRetries
    /\ \A k \in 1..Len(responses) : Failed(responses[k])

LastResponse == responses[Len(responses)]

\* after a last attempt without text the fallback documentation is returned
FallbackAfterEmptyText ==
    GaveNoText(LastResponse) =>
        /\ genPc = "returned"
        /\ genRet[1].kind = "fallback"
        /\ genRet[1].value.framework \in {"NestJS", "Express", "Fastify", "Koa", "Unknown"}

\* C24 as stated: when all attempts failed, an empty last response gives the
\* fallback and no error, and a last attempt that raised makes the call
\* raise the error after maxRetries attempts with the message of what that
\* attempt raised
C24_LastAttemptDecides ==
    AllAttemptsFailed =>
        /\ FallbackAfterEmptyText
        /\ LastResponse.kind = "raised" =>
              /\ genPc = "raised"
              /\ genRet[1].kind = "error"
              /\ genRet[1].value.text = "AI analysis failed after"
              /\ genRet[1].value.attempts = maxRetries
              /\ genRet[1].value.message = LastResponse.thrown.message

\* C24, amended: the same, the message being that of the last raised value
\* when it is an Error with a message that is not empty, and Unknown error
\* when it is no Error or its message is empty
C24_LastAttemptDecidesOrUnknown ==
    AllAttemptsFailed =>
        /\ FallbackAfterEmptyText
        /\ LastResponse.kind = "raised" =>
              /\ genPc = "raised"
              /\ genRet[1].kind = "error"
              /\ genRet[1].value.text = "AI analysis failed after"
              /\ genRet[1].value.attempts = maxRetries
              /\ genRet[1].value.message =
                     IF LastResponse.thrown.isError /\ LastResponse.thrown.message # ""
                     THEN LastResponse.thrown.message
                     ELSE "Unknown error"

\* two attempts gave no text and the third raised an Error: the call raises
\* with that Error's message though no earlier attempt raised
C24_Witness ==
    /\ AllAttemptsFailed
    /\ maxRetries = 3
    /\ GaveNoText(responses[1]) /\ GaveNoText(responses[2])
    /\ responses[3] = Raised(TRUE, "timeout")
    /\ genPc = "raised"
    /\ genRet[1].kind = "error"
    /\ genRet[1].value.attempts = 3
    /\ genRet[1].value.message = "timeout"


(***************************************************************************)
(* MongoDBAdapter, mongodb-adapter.ts: one adapter, the methods called on  *)
(* it one after the other, and the database behind it.                     *)
(*   opLog: [op, outcome], outcome ok, not connected or raised             *)
(*   commands: the driver calls made, by name                              *)
(***************************************************************************)
MaxOps == 3

Mappings == [createCollections : BOOLEAN, includeTypeSchemas : BOOLEAN]

\* the analysis results handed to saveAnalysis
SavedAnalyses ==
    {AnalysisOf(<<F_types, F_orders>>), AnalysisOf(<<F_app>>), AnalysisOf(<<F_spec>>)}

QueryMethods ==
    {"getDocumentationCount", "getLatestDocumentation", "getDocumentationByFramework",
     "getRuns", "getRunById"}

\* lines 252-254, 264-269, 279-283, 292-314, 322-325: the driver call of a query
QueryCommand(m) ==
    CASE m = "getDocumentationCount" -> "countDocuments"
      [] m = "getRuns" -> "aggregate"
      [] OTHER -> "find"

\* value || fallback for a string
OrElse(value, fallback) == IF value = <<>> THEN fallback ELSE value

Logged(op, outcome) == opLog' = Append(opLog, [op |-> op, outcome |-> outcome])

AdapterInit ==
    /\ mapping \in Mappings
    /\ isConnected = FALSE
    /\ clientOpen = FALSE
    /\ stored = [documentation |-> <<>>, endpoints |-> <<>>, types |-> <<>>]
    /\ commands = <<>>
    /\ opLog = <<>>

\* lines 86-129: createCollections; what the driver raises is caught
CreateCollectionsCommands ==
    IF mapping.createCollections THEN <<"createCollections">> ELSE <<>>

\* the mutant sets the flag before the client has connected
ConnectMarksFirst ==
    /\ Len(opLog) < MaxOps
    /\ IF isConnected
       THEN Logged("connect", "ok") /\ UNCHANGED <<isConnected, clientOpen, commands>>
       ELSE \E ok \in BOOLEAN :
               IF ok
               THEN /\ isConnected' = TRUE /\ clientOpen' = TRUE
                    /\ commands' = commands \o <<"connect">> \o CreateCollectionsCommands
                    /\ Logged("connect", "ok")
               ELSE /\ isConnected' = TRUE
                    /\ commands' = Append(commands, "connect")
                    /\ Logged("connect", "raised")
                    /\ UNCHANGED clientOpen
    /\ UNCHANGED <<mapping, stored>>

\* lines 71-77
Connect ==
    /\ Len(opLog) < MaxOps
    /\ IF isConnected
       THEN Logged("connect", "ok") /\ UNCHANGED <<isConnected, clientOpen, commands>>
       ELSE \E ok \in BOOLEAN :
               IF ok
               THEN /\ isConnected' = TRUE /\ clientOpen' = TRUE
                    /\ commands' = commands \o <<"connect">> \o CreateCollectionsCommands
                    /\ Logged("connect", "ok")
               ELSE /\ commands' = Append(commands, "connect")
                    /\ Logged("connect", "raised")
                    /\ UNCHANGED <<isConnected, clientOpen>>
    /\ UNCHANGED <<mapping, stored>>

\* lines 79-84; when client.close() raises, the client may or may not still
\* hold its connection
Disconnect ==
    /\ Len(opLog) < MaxOps
    /\ IF ~isConnected
       THEN Logged("disconnect", "ok") /\ UNCHANGED <<isConnected, clientOpen, commands>>
       ELSE /\ commands' = Append(commands, "close")
            /\ \E ok \in BOOLEAN :
                  IF ok
                  THEN /\ isConnected' = FALSE /\ clientOpen' = FALSE
                       /\ Logged("disconnect", "ok")
                  ELSE /\ clientOpen' \in BOOLEAN
                       /\ Logged("disconnect", "raised")
                       /\ UNCHANGED isConnected
    /\ UNCHANGED <<mapping, stored>>

\* lines 137-146: the documentation entry of an analysis
AnalysisEntry(data, id) ==
    [id |-> id, title |-> "Universal API Documentation", version |-> "1.0.0",
     framework |-> IF data.framework = "" THEN "unknown" ELSE data.framework,
     analysisData |-> data]

\* the mutant leaves the controllers' routes out
EndpointsOfRoutesOnly(data, docId) ==
    [k \in 1..Len(data.routes) |->
        LET route == data.routes[k]
        IN  [path |-> OrElse(route.path, STR_slash),
             method |-> OrElse(route.method, STR_GET),
             controllerName |-> OrElse(route.handler, STR_unknown),
             methodName |-> OrElse(route.handler, STR_unknown),
             parameters |-> route.parameters,
             documentationId |-> docId,
             summary |-> OrElse(route.handler, <<"R","o","u","t","e"," ","h","a","n","d","l","e","r">>),
             tags |-> <<OrElse(route.handler, <<"r","o","u","t","e">>)>>,
             framework |-> IF data.framework = "" THEN "unknown" ELSE data.framework]]

\* lines 153-182: the endpoint entries of an analysis
EndpointsOf(data, docId) ==
    [k \in 1..Len(data.routes) |->
        LET route == data.routes[k]
        IN  [path |-> OrElse(route.path, STR_slash),
             method |-> OrElse(route.method, STR_GET),
             controllerName |-> OrElse(route.handler, STR_unknown),
             methodName |-> OrElse(route.handler, STR_unknown),
             parameters |-> route.parameters,
             documentationId |-> docId,
             summary |-> OrElse(route.handler, <<"R","o","u","t","e"," ","h","a","n","d","l","e","r">>),
             tags |-> <<OrElse(route.handler, <<"r","o","u","t","e">>)>>,
             framework |-> IF data.framework = "" THEN "unknown" ELSE data.framework]]
    \o Concat([c \in 1..Len(data.controllers) |->
          [j \in 1..Len(data.controllers[c].routes) |->
              LET controller == data.controllers[c]
                  route == controller.routes[j]
              IN  [path |-> OrElse(route.path, STR_slash),
                   method |-> OrElse(route.method, STR_GET),
                   controllerName |-> controller.name,
                   methodName |-> OrElse(route.handler, STR_unknown),
                   parameters |-> route.parameters,
                   documentationId |-> docId,
                   summary |-> OrElse(route.handler, <<"C","o","n","t","r","o","l","l","e","r"," ","m","e","t","h","o","d">>),
                   tags |-> <<controller.name>>,
                   framework |-> IF data.framework = "" THEN "unknown"
                                 ELSE data.framework]]])

\* lines 191-201: the type entries; definition stands for JSON.stringify(type)
TypeSchemasOf(data, docId) ==
    IF mapping.includeTypeSchemas
    THEN [k \in 1..Len(data.types) |->
             [name |-> data.types[k].name,
              type |-> data.types[k].type,
              definition |-> [json |-> data.types[k]],
              documentationId |-> docId,
              framework |-> IF data.framework = "" THEN "unknown" ELSE data.framework]]
    ELSE <<>>

\* the inserts saveAnalysis makes for an analysis, in order
InsertsOf(data) ==
    <<"insertOne documentation">>
        \o (IF EndpointsOf(data, 0) # <<>> THEN <<"insertMany endpoints">> ELSE <<>>)
        \o (IF TypeSchemasOf(data, 0) # <<>> THEN <<"insertMany types">> ELSE <<>>)

\* lines 131-214: saveAnalysis; done is the number of inserts that returned
\* before one raised, all of them when none did
SaveAnalysis ==
    /\ Len(opLog) < MaxOps
    /\ \E data \in SavedAnalyses :
          IF ~isConnected
          THEN Logged("saveAnalysis", "not connected") /\ UNCHANGED <<stored, commands>>
          ELSE \E done \in 0..Len(InsertsOf(data)) :
                  LET inserts == InsertsOf(data)
                      docId == Len(stored.documentation) + 1
                      made(c) == \E k \in 1..done : inserts[k] = c
                  IN  /\ commands' = commands \o
                             SubSeq(inserts, 1, IF done < Len(inserts) THEN done + 1 ELSE done)
                      /\ stored' =
                            [documentation |->
                                 IF made("insertOne documentation")
                                 THEN Append(stored.documentation, AnalysisEntry(data, docId))
                                 ELSE stored.documentation,
                             endpoints |->
                                 IF made("insertMany endpoints")
                                 THEN stored.endpoints \o EndpointsOf(data, docId)
                                 ELSE stored.endpoints,
                             types |->
                                 IF made("insertMany types")
                                 THEN stored.types \o TypeSchemasOf(data, docId)
                                 ELSE stored.types]
                      /\ Logged("saveAnalysis",
                                IF done = Len(inserts) THEN "ok" ELSE "raised")
    /\ UNCHANGED <<mapping, isConnected, clientOpen>>

\* lines 216-237: saveDocumentation
SaveDocumentation ==
    /\ Len(opLog) < MaxOps
    /\ IF ~isConnected
       THEN Logged("saveDocumentation", "not connected") /\ UNCHANGED <<stored, commands>>
       ELSE /\ commands' = Append(commands, "insertOne documentation")
            /\ \E ok \in BOOLEAN :
                  IF ok
                  THEN /\ stored' = [stored EXCEPT !.documentation =
                                        Append(@, [id |-> Len(@) + 1,
                                                   source |-> "ai-generation"])]
                       /\ Logged("saveDocumentation", "ok")
                  ELSE Logged("saveDocumentation", "raised") /\ UNCHANGED stored
    /\ UNCHANGED <<mapping, isConnected, clientOpen>>

\* lines 247-351: the five query methods
Query ==
    /\ Len(opLog) < MaxOps
    /\ \E m \in QueryMethods :
          IF ~isConnected
          THEN Logged(m, "not connected") /\ UNCHANGED commands
          ELSE /\ commands' = Append(commands, QueryCommand(m))
               /\ \E ok \in BOOLEAN : Logged(m, IF ok THEN "ok" ELSE "raised")
    /\ UNCHANGED <<mapping, isConnected, clientOpen, stored>>

SpecAdapterInit ==
    /\ AdapterInit /\ RetryIdle
    /\ GroupIdle /\ NameIdle /\ HandlerIdle /\ PathIdle /\ ExtractIdle
    /\ CmdIdle /\ AnalyzeIdle /\ ChunkIdle
SpecAdapterNext ==
    (Connect \/ Disconnect \/ SaveAnalysis \/ SaveDocumentation \/ Query)
        /\ UNCHANGED <<groupVars, nameVars, handlerVars, pathVars, extractVars, cmdVars,
                       analyzeVars, chunkVars, retryVars>>
SpecAdapter == SpecAdapterInit /\ [][SpecAdapterNext]_vars

DataOperations == {"saveAnalysis", "saveDocumentation"} \cup QueryMethods

\* the method called by this step, and how the call ended
CalledOp == opLog'[Len(opLog')]

\* C25: a data operation called on an adapter that is not connected raises
\* Database not connected and issues no database command, and the adapter is
\* connected exactly when a connect has returned that no later returned
\* disconnect follows
C25_NotConnected ==
    [][/\ (Len(opLog') = Len(opLog) + 1 /\ CalledOp.op \in DataOperations /\ ~isConnected) =>
              /\ CalledOp.outcome = "not connected"
              /\ commands' = commands
              /\ stored' = stored
       /\ isConnected' <=>
              \E c \in {k \in 1..Len(opLog') : opLog'[k].op = "connect"
                                                /\ opLog'[k].outcome = "ok"} :
                  \A d \in 1..Len(opLog') :
                      (opLog'[d].op = "disconnect" /\ opLog'[d].outcome = "ok") => d < c]_vars

\* after a connect and a disconnect that returned, getRuns has raised
\* Database not connected: the only commands are those of the connect and of
\* the close
C25_Witness ==
    /\ Len(opLog) >= 3
    /\ \E k \in 1..(Len(opLog) - 2) :
          /\ opLog[k] = [op |-> "connect", outcome |-> "ok"]
          /\ opLog[k + 1] = [op |-> "disconnect", outcome |-> "ok"]
          /\ opLog[k + 2] = [op |-> "getRuns", outcome |-> "not connected"]
    /\ ~isConnected
    /\ \A k \in 1..Len(commands) : commands[k] \in {"connect", "createCollections", "close"}


\* dbOps holds the adapter calls of a flow that returned. The block calls
\* disconnect as soon as its save has returned (lines 257-259, 517-532), so
\* disconnect was called after the connect at k exactly when a save follows it
DisconnectCalledAfter(k) ==
    /\ k < Len(dbOps)
    /\ dbOps[k + 1] \in {"saveAnalysis", "saveDocumentation"}

\* C26: when the analyze command has ended, every connect that returned was
\* followed by a call of disconnect on the same adapter, also when the save
\* between them raised
C26_DisconnectAfterConnect ==
    cmdPc \in {"ended", "exited"} =>
        \A k \in 1..Len(dbOps) : dbOps[k] = "connect" => DisconnectCalledAfter(k)


\* the files of the first n modules of the grouping, as the loop of
\* generateChunkedAIDocumentation writes them
ChunkFilesThrough(n) ==
    Concat([i \in 1..n |-> <<FileOf(moduleChunks[i].name, "analysis.json"),
                             FileOf(moduleChunks[i].name, "md")>>])

\* C27: the ai:chunks flow takes the modules in the key order of the
\* grouping and writes the JSON file of a module, then (the AI call having
\* returned) its Markdown file; when a module fails the flow exits with the
\* files of the earlier modules and at most the JSON file of the failing one,
\* and nothing of a later module
C27_ModulesInOrder ==
    flow = "ai:chunks" =>
        /\ cmdPc \in {"start", "group"} => written = <<>> /\ moduleIndex = 0
        /\ cmdPc \in {"modules", "ended"} => written = ChunkFilesThrough(moduleIndex)
        /\ cmdPc = "ended" => moduleIndex = Len(moduleChunks)
        /\ cmdPc = "exited" =>
              \/ written = ChunkFilesThrough(moduleIndex)
              \/ /\ moduleIndex < Len(moduleChunks)
                 /\ written = Append(ChunkFilesThrough(moduleIndex),
                                     FileOf(moduleChunks[moduleIndex + 1].name,
                                            "analysis.json"))

\* the second module failed after its JSON file was written: both
\* files of the first module and that JSON file are there, nothing else
C27_Witness ==
    /\ flow = "ai:chunks" /\ cmdPc = "exited"
    /\ Len(moduleChunks) >= 2 /\ moduleIndex = 1
    /\ written = <<FileOf(moduleChunks[1].name, "analysis.json"),
                   FileOf(moduleChunks[1].name, "md"),
                   FileOf(moduleChunks[2].name, "analysis.json")>>


\* the command has gone through its MongoDB block and a call of the block
\* raised: the calls that returned are not connect, saveAnalysis, disconnect
SaveAnalysisFailed ==
    /\ cmdPc \in {"ai", "ended", "exited"}
    /\ result # <<>> /\ failure # "write"
    /\ options.saveToDb \/ config.databaseEnabled
    /\ \/ Len(dbOps) < 3
       \/ SubSeq(dbOps, 1, 3) # <<"connect", "saveAnalysis", "disconnect">>

\* C28: when connect, saveAnalysis or disconnect raised in the analyze
\* command, a warning was given, the analysis file, when enabled, is the
\* first file written, the command has not exited before the AI step, the AI
\* generation was started exactly when --ai is given, and an exit with code 1
\* comes from the AI generation
C28_MongoFailureIsWarning ==
    SaveAnalysisFailed =>
        /\ warnings >= 1
        /\ config.saveRawAnalysis => (written # <<>> /\ written[1] = "analysis")
        /\ cmdPc = "ai" => (exitCode = <<>> /\ failure = "none" /\ ~aiStarted)
        /\ cmdPc \in {"ended", "exited"} => (aiStarted <=> options.ai)
        /\ exitCode = <<1>> => (aiStarted /\ failure \in {"none", "ai"})
        /\ cmdPc = "ended" => exitCode = <<>>

\* saveAnalysis raised after the analysis file was written; the AI
\* generation ran, saved its documentation, and the command ended without an
\* exit code
C28_Witness ==
    /\ SaveAnalysisFailed
    /\ dbOps = <<"connect", "connect", "saveDocumentation", "disconnect">>
    /\ config.saveRawAnalysis /\ options.ai /\ options.saveToDb
    /\ written = <<"analysis", "ai-docs">>
    /\ warnings = 1 /\ aiStarted
    /\ cmdPc = "ended" /\ exitCode = <<>>


\* C29: the fallback loop of groupRoutesByController never raises, whatever
\* module name a route gets, a name every object inherits included, and each
\* route it has passed is in a module list
C29_FallbackCompletes ==
    /\ pc # "threw"
    /\ pc = "fallback" => \A i \in 1..index : Filed(i)


\* what a step has added to a collection, when the collection only grew
AddedTo(collection) ==
    SubSeq(stored'[collection], Len(stored[collection]) + 1, Len(stored'[collection]))
OnlyGrew(collection) ==
    /\ Len(stored'[collection]) >= Len(stored[collection])
    /\ SubSeq(stored'[collection], 1, Len(stored[collection])) = stored[collection]

\* the routes the controllers of an analysis result list
ControllerRoutesOf(data) ==
    Concat([c \in 1..Len(data.controllers) |-> data.controllers[c].routes])

\* the endpoint entries among es that were made from route
EntriesOf(es, route) ==
    {k \in 1..Len(es) : es[k].path = OrElse(route.path, STR_slash)
                        /\ es[k].method = OrElse(route.method, STR_GET)
                        /\ es[k].methodName = OrElse(route.handler, STR_unknown)}

\* C30: a call of saveAnalysis on a connected adapter inserts the
\* documentation entry, then one endpoint entry per route of the analysis
\* and one per route of each controller, all with the id of that entry, so
\* that a route a controller owns is stored twice, then the types; an insert
\* is made only after the ones before it, and what was inserted before an
\* insert raised stays
C30_SaveAnalysisInserts ==
    [][(Len(opLog') = Len(opLog) + 1 /\ CalledOp.op = "saveAnalysis" /\ isConnected) =>
          /\ OnlyGrew("documentation") /\ OnlyGrew("endpoints") /\ OnlyGrew("types")
          /\ Len(AddedTo("documentation")) <= 1
          /\ AddedTo("documentation") = <<>> =>
                /\ AddedTo("endpoints") = <<>> /\ AddedTo("types") = <<>>
                /\ CalledOp.outcome = "raised"
          /\ AddedTo("documentation") # <<>> =>
                LET entry == AddedTo("documentation")[1]
                    data == entry.analysisData
                    endpoints == AddedTo("endpoints")
                    types == AddedTo("types")
                    owned == ControllerRoutesOf(data)
                    count == Len(data.routes) + Len(owned)
                IN  /\ \A k \in 1..Len(stored.documentation) :
                           stored.documentation[k].id # entry.id
                    /\ Len(endpoints) \in {0, count}
                    /\ \A k \in 1..Len(endpoints) : endpoints[k].documentationId = entry.id
                    /\ endpoints # <<>> =>
                          /\ \A k \in 1..Len(data.routes) :
                                k \in EntriesOf(endpoints, data.routes[k])
                          /\ \A j \in 1..Len(owned) :
                                /\ (Len(data.routes) + j) \in EntriesOf(endpoints, owned[j])
                                /\ Cardinality(EntriesOf(endpoints, owned[j])) >= 2
                    /\ \A k \in 1..Len(types) : types[k].documentationId = entry.id
                    /\ Len(types) \in {0, Len(data.types)}
                    /\ types # <<>> => (mapping.includeTypeSchemas /\ Len(endpoints) = count)
                    /\ CalledOp.outcome = "ok" =>
                          /\ Len(endpoints) = count
                          /\ Len(types) = IF mapping.includeTypeSchemas
                                          THEN Len(data.types) ELSE 0
                    /\ CalledOp.outcome = "raised" =>
                          \/ Len(endpoints) = 0 /\ count > 0
                          \/ Len(types) = 0 /\ mapping.includeTypeSchemas
                                /\ Len(data.types) > 0]_vars

\* the analysis of a project with three routes, one of them owned by the
\* controller, and three types was saved up to its types, whose insert
\* raised: the entry and its four endpoints are stored
C30_Witness ==
    /\ opLog # <<>> /\ opLog[Len(opLog)] = [op |-> "saveAnalysis", outcome |-> "raised"]
    /\ mapping.includeTypeSchemas
    /\ Len(stored.documentation) = 1
    /\ stored.documentation[1].analysisData = AnalysisOf(<<F_types, F_orders>>)
    /\ Len(stored.documentation[1].analysisData.routes) = 3
    /\ Len(stored.endpoints) = 4
    /\ \A k \in 1..4 : stored.endpoints[k].documentationId = stored.documentation[1].id
    /\ stored.endpoints[4].controllerName = <<"O","r","d","e","r","s","F","a","c","a","d","e">>
    /\ stored.types = <<>>

====
